---------------------------- MODULE Spec2Model ----------------------------
(***************************************************************************)
(* DailyNews: the feed ingestion and admission pipeline.                   *)
(*                                                                         *)
(* Strings the code takes apart (titles, category and language codes,      *)
(* image URLs) are sequences of tokens, so that cleaning, searching and    *)
(* splitting are computed as the code computes them.  Times are hours.     *)
(***************************************************************************)
EXTENDS Integers, Sequences, FiniteSets, TLC

(***************************************************************************)
(* Bounds of the model.                                                    *)
(***************************************************************************)
MaxRuns    == 2          \* pipeline runs (full or single-source) in a behaviour
MaxTicks   == 1          \* hours the wall clock may advance in a behaviour
MaxFaults  == 1          \* failures of the database or the network in a behaviour

(***************************************************************************)
(* Sequence helpers.                                                       *)
(***************************************************************************)
\* strings.Contains(s, w)
Contains(s, w) ==
    \E i \in 1..(Len(s) - Len(w) + 1) : SubSeq(s, i, i + Len(w) - 1) = w

\* strings.Index(s, ch) for a one-token needle; 0 when absent
IndexOf(s, ch) ==
    IF \E i \in 1..Len(s) : s[i] = ch
    THEN CHOOSE i \in 1..Len(s) : s[i] = ch /\ \A j \in 1..(i - 1) : s[j] # ch
    ELSE 0

(***************************************************************************)
(* Title text.  A title is a sequence of tokens: letters, the space, "<"   *)
(* and ">", and the entity "&nbsp;" taken as one token.                    *)
(***************************************************************************)
LowerOf(ch) ==
    CASE ch = "H" -> "h"
      [] ch = "O" -> "o"
      [] ch = "R" -> "r"
      [] OTHER    -> ch

\* strings.ToLower
ToLower(s) == [i \in 1..Len(s) |-> LowerOf(s[i])]

\* blacklist = {"oróscopo", "horóscopo"}, abbreviated to their first letters
blacklist == { <<"o", "r">>, <<"h", "o", "r">> }

isBlacklisted(title) == \E word \in blacklist : Contains(ToLower(title), word)

RECURSIVE StripTags(_)
\* regexp "<[^>]*>" replaced by "": from a "<" through the first ">" after it
StripTags(s) ==
    IF s = <<>> THEN <<>>
    ELSE IF Head(s) = "<" /\ IndexOf(Tail(s), ">") > 0
         THEN StripTags(SubSeq(Tail(s), IndexOf(Tail(s), ">") + 1, Len(Tail(s))))
         ELSE <<Head(s)>> \o StripTags(Tail(s))

DecodeEntity(ch) ==
    CASE ch = "&nbsp;" -> " "
      [] ch = "&amp;"  -> "&"
      [] OTHER         -> ch

DecodeEntities(s) == [i \in 1..Len(s) |-> DecodeEntity(s[i])]

RECURSIVE Fields(_)
\* strings.Fields: the maximal runs of non-space tokens
Fields(s) ==
    IF s = <<>> THEN <<>>
    ELSE IF Head(s) = " " THEN Fields(Tail(s))
    ELSE LET sp == IndexOf(s, " ")
         IN  IF sp = 0 THEN <<s>>
             ELSE <<SubSeq(s, 1, sp - 1)>> \o Fields(SubSeq(s, sp + 1, Len(s)))

RECURSIVE JoinSpace(_)
\* strings.Join(words, " ")
JoinSpace(words) ==
    IF words = <<>> THEN <<>>
    ELSE IF Len(words) = 1 THEN words[1]
    ELSE words[1] \o <<" ">> \o JoinSpace(Tail(words))

cleanText(text) == JoinSpace(Fields(DecodeEntities(StripTags(text))))

RECURSIVE TrimLeft(_)
TrimLeft(s) == IF s # <<>> /\ Head(s) = " " THEN TrimLeft(Tail(s)) ELSE s

RECURSIVE TrimRight(_)
TrimRight(s) ==
    IF s # <<>> /\ s[Len(s)] = " " THEN TrimRight(SubSeq(s, 1, Len(s) - 1)) ELSE s

TrimSpace(s) == TrimRight(TrimLeft(s))

\* cleanCDATA: the CDATA markers are one token each
cleanCDATA(s) ==
    LET a == TrimSpace(s)
        b == IF a # <<>> /\ Head(a) = "<![CDATA[" THEN Tail(a) ELSE a
        c == IF b # <<>> /\ b[Len(b)] = "]]>" THEN SubSeq(b, 1, Len(b) - 1) ELSE b
    IN  TrimSpace(c)

(***************************************************************************)
(* Category and language codes, the group key and its split.               *)
(***************************************************************************)
CatSports == <<"s", "p">>
CatTech   == <<"t", "e">>
CatRealEstate == <<"r", "_", "e">>
CatCulture == <<"c", "u">>
LangEs    == <<"e", "s">>
DefaultKey == <<"d", "e", "f">>

GroupKey(cat, lang) == cat \o <<"_">> \o lang

\* strings.SplitN(key, "_", 2)
SplitN2(key) ==
    LET i == IndexOf(key, "_")
    IN  IF i = 0 THEN <<key>>
        ELSE <<SubSeq(key, 1, i - 1), SubSeq(key, i + 1, Len(key))>>

(***************************************************************************)
(* Configuration.  A value read from the YAML file is tagged with its Go    *)
(* dynamic type.                                                           *)
(***************************************************************************)
IntV(n)  == [t |-> "int", v |-> n]
FloatV(n) == [t |-> "float", v |-> n]
MapV(m)  == [t |-> "map", m |-> m]

NewsCountCfg ==
    (LangEs :> MapV((CatSports :> IntV(2)) @@ (CatCulture :> IntV(0))
                    @@ (DefaultKey :> IntV(3))))
    @@ (DefaultKey :> IntV(5))

MaxPerSourceCfg ==
    (LangEs :> MapV(CatTech :> IntV(1))) @@ (DefaultKey :> IntV(2))

MaxDaysCfg == (DefaultKey :> IntV(1))

Has(m, k) == k \in DOMAIN m

\* config.getIntValueFromNestedMap
getIntValueFromNestedMap(nestedMap, lang, category, fallback) ==
    LET langMap == IF Has(nestedMap, lang) /\ nestedMap[lang].t = "map"
                   THEN nestedMap[lang].m ELSE <<>>
    IN  IF Has(langMap, category) /\ langMap[category].t = "int"
        THEN langMap[category].v
        ELSE IF Has(langMap, DefaultKey) /\ langMap[DefaultKey].t = "int"
        THEN langMap[DefaultKey].v
        ELSE IF Has(nestedMap, DefaultKey) /\ nestedMap[DefaultKey].t = "int"
        THEN nestedMap[DefaultKey].v
        ELSE fallback

\* config.GetMaxPerSource
GetMaxPerSource(lang, category) ==
    getIntValueFromNestedMap(MaxPerSourceCfg, lang, category, 7)

\* config.GetMaxDays
GetMaxDays(lang, category) ==
    getIntValueFromNestedMap(MaxDaysCfg, lang, category, 5)

\* the body of FetchNewsUseCase.getNewsCount on the map config.NewsCount
newsCountFrom(NewsCount, lang, cat) ==
    LET m == IF Has(NewsCount, lang) /\ NewsCount[lang].t = "map"
             THEN NewsCount[lang].m ELSE <<>>
        num(x) == x.t \in {"int", "float"}
    IN  IF Has(m, cat) /\ num(m[cat]) THEN m[cat].v
        ELSE IF Has(m, DefaultKey) /\ num(m[DefaultKey]) THEN m[DefaultKey].v
        ELSE IF Has(NewsCount, DefaultKey) /\ num(NewsCount[DefaultKey])
        THEN NewsCount[DefaultKey].v
        ELSE 10

\* FetchNewsUseCase.getNewsCount
getNewsCount(lang, cat) == newsCountFrom(NewsCountCfg, lang, cat)

\* config.FiltersConfig as loaded: the title bounds and the few-sources age
FiltersMin2 == [MinTitle |-> 2, MaxTitle |-> 4, MaxDaysForNewsWithFewSources |-> 2]

\* the same with min_title left out of the file
FiltersMin0 == [MinTitle |-> 0, MaxTitle |-> 4, MaxDaysForNewsWithFewSources |-> 0]

Day == 24                \* hours in 24*time.Hour

(***************************************************************************)
(* Images.  A URL is a sequence of path tokens; the empty sequence is "".  *)
(***************************************************************************)
NoImage  == <<>>
ImgOk    == <<"http://x/", "ok.jpg">>
ImgSmall == <<"http://x/", "small.jpg">>
ImgGone  == <<"http://x/", "gone.jpg">>
\* a picture another site serves from a path of its own with /images/fallback/ in it
ImgHosted == <<"http://x/", "/images/fallback/", "f1.png">>

FallbackDir == "/images/fallback/"

\* a GET: did it get an answer, the status, the declared type, does the body
\* decode as an image, the decoded size
Response(net, status, mime, decodes, w, h) ==
    [net |-> net, status |-> status, mime |-> mime, decodes |-> decodes, w |-> w, h |-> h]

\* what a GET of the URL answers
Remote(url) ==
    CASE url = ImgOk    -> Response(TRUE, 200, "image/jpeg", TRUE, 800, 450)
      [] url = ImgSmall -> Response(TRUE, 200, "image/jpeg", TRUE, 300, 200)
      [] OTHER          -> Response(TRUE, 404, "text/html", FALSE, 0, 0)

isValidImageType(mimeType) ==
    mimeType \in {"image/jpeg", "image/png", "image/webp", "image/gif"}

MinWidth  == 400
MinHeight == 225
\* targetAspect 16:9 and aspectTolerance in percent, as main passes them
AspectNum == 16
AspectDen == 9
TolerancePct == 10

\* the checks with a picture under the minimum size taken as an error
validateResponseStrict(r) ==
    IF ~r.net THEN [valid |-> FALSE, err |-> TRUE]
    ELSE IF r.status # 200 THEN [valid |-> FALSE, err |-> TRUE]
    ELSE IF ~isValidImageType(r.mime) THEN [valid |-> FALSE, err |-> TRUE]
    ELSE IF ~r.decodes THEN [valid |-> FALSE, err |-> TRUE]
    ELSE IF r.w < MinWidth \/ r.h < MinHeight THEN [valid |-> FALSE, err |-> TRUE]
    ELSE IF r.w * AspectDen * 100 < r.h * AspectNum * (100 - TolerancePct)
            \/ r.w * AspectDen * 100 > r.h * AspectNum * (100 + TolerancePct)
    THEN [valid |-> FALSE, err |-> FALSE]
    ELSE [valid |-> TRUE, err |-> FALSE]

\* the checks of ValidateImage on the answer of its GET: <<valid, error>>
validateResponse(r) ==
    IF ~r.net THEN [valid |-> FALSE, err |-> TRUE]
    ELSE IF r.status # 200 THEN [valid |-> FALSE, err |-> TRUE]
    ELSE IF ~isValidImageType(r.mime) THEN [valid |-> FALSE, err |-> TRUE]
    ELSE IF ~r.decodes THEN [valid |-> FALSE, err |-> TRUE]
    ELSE IF r.w < MinWidth \/ r.h < MinHeight THEN [valid |-> FALSE, err |-> FALSE]
    ELSE IF r.w * AspectDen * 100 < r.h * AspectNum * (100 - TolerancePct)
            \/ r.w * AspectDen * 100 > r.h * AspectNum * (100 + TolerancePct)
    THEN [valid |-> FALSE, err |-> FALSE]
    ELSE [valid |-> TRUE, err |-> FALSE]

\* imageDownloader.ValidateImage
ValidateImage(imageURL) == validateResponse(Remote(imageURL))

(***************************************************************************)
(* Extraction patterns, feeds and the fetcher.                             *)
(***************************************************************************)
Patron1        == <<"patron1">>
Patron1NoImage == <<"patron1", "_", "no_image">>

IsNoImage(filter) == Contains(filter, <<"no_image">>)

Entry(t, l, i, p) == [title |-> t, link |-> l, image |-> i, pub |-> p]

\* documents the feed at u1 serves (image as the pattern extracts it)
U1Two       == << Entry(<<"a", "b", "c">>, "l1", ImgOk, -1),
                  Entry(<<"c", "d">>, "l4", ImgOk, -1) >>
U1Rejects   == << Entry(<<"H", "O", "R">>, "l3", ImgOk, -1),
                  Entry(<<"<", "b", ">", "a">>, "l1", ImgSmall, -1) >>
U1Stale     == << Entry(<<"<", "i", ">", "b", "c", "d">>, "l2", ImgOk, -48),
                  Entry(<<"a", "b", "c">>, "l1", ImgGone, -1) >>
U1SameTitle == << Entry(<<"a", "b", "c">>, "l1", ImgOk, -1),
                  Entry(<<"a", "b", "c">>, "l7", ImgOk, -1) >>
U1SameLink  == << Entry(<<"a", "b">>, "l1", ImgOk, -1),
                  Entry(<<"c", "d">>, "l1", ImgOk, -1) >>
U1NoImage   == << Entry(<<"b", "c">>, "l2", NoImage, -1),
                  Entry(<<"c", "d">>, "l4", ImgSmall, -1) >>

U1Hosted    == << Entry(<<"a", "b", "c">>, "l1", ImgHosted, -1),
                  Entry(<<"c", "d">>, "l4", ImgOk, -1) >>

\* documents the feed at u2 serves
U2Pictures  == << Entry(<<"d", "e">>, "l8", ImgOk, -1),
                  Entry(<<"e", "f">>, "l9", ImgOk, -1) >>
U2Repeats   == << Entry(<<"a", "b", "c">>, "l5", NoImage, -1),
                  Entry(<<"d", " ", "e">>, "l1", NoImage, -72) >>
U2Blank     == << Entry(<<"<", "b", ">">>, "l6", NoImage, -1),
                  Entry(<<"e">>, "", NoImage, -1) >>
U2Two       == << Entry(<<"d", "e">>, "l8", NoImage, -1),
                  Entry(<<"e", "f">>, "l9", NoImage, -1) >>

RECURSIVE FetchItems(_, _)
\* rssFetcher.Fetch on a parsed feed: entries without title or link are dropped
FetchItems(entries, filter) ==
    IF entries = <<>> THEN <<>>
    ELSE LET e == Head(entries)
             rest == FetchItems(Tail(entries), filter)
         IN  IF e.title = <<>> THEN rest
             ELSE IF e.link = "" THEN rest
             ELSE << [Title   |-> cleanCDATA(e.title),
                      Link    |-> e.link,
                      Image   |-> IF IsNoImage(filter) THEN NoImage ELSE e.image,
                      PubDate |-> e.pub] >> \o rest

(***************************************************************************)
(* The source directory and the fallback images.                           *)
(***************************************************************************)
Source(id, name, url, filter, cat, lang, active) ==
    [ID |-> id, SourceName |-> name, RSSURL |-> url, Filter |-> filter,
     Cat |-> cat, Lang |-> lang, IsActive |-> active]

\* the directory in primary-key order
SourcesA ==
    << Source(1, "n1", "u1", Patron1, CatSports, LangEs, TRUE),
       Source(2, "n2", "u2", Patron1NoImage, CatSports, LangEs, TRUE),
       Source(3, "n3", "u1", Patron1, CatTech, LangEs, TRUE),
       Source(4, "n4", "u2", Patron1, CatTech, LangEs, FALSE) >>

\* the same directory with the two sports sources in the other order
SourcesB ==
    << Source(1, "n2", "u2", Patron1NoImage, CatSports, LangEs, TRUE),
       Source(2, "n1", "u1", Patron1, CatSports, LangEs, TRUE),
       Source(3, "n3", "u1", Patron1, CatTech, LangEs, TRUE),
       Source(4, "n4", "u2", Patron1, CatTech, LangEs, FALSE) >>

\* a directory with four active sports sources and three active tech sources
SourcesC ==
    << Source(1, "n1", "u1", Patron1, CatSports, LangEs, TRUE),
       Source(2, "n2", "u2", Patron1NoImage, CatSports, LangEs, TRUE),
       Source(3, "n3", "u1", Patron1, CatTech, LangEs, TRUE),
       Source(4, "n4", "u2", Patron1, CatTech, LangEs, FALSE),
       Source(5, "n5", "u1", Patron1, CatSports, LangEs, TRUE),
       Source(6, "n6", "u2", Patron1NoImage, CatSports, LangEs, TRUE),
       Source(7, "n7", "u1", Patron1, CatTech, LangEs, TRUE),
       Source(8, "n8", "u2", Patron1, CatTech, LangEs, TRUE) >>

\* two feeds of one publisher under one name, in one group
SourcesD ==
    << Source(1, "n1", "u1", Patron1, CatTech, LangEs, TRUE),
       Source(2, "n1", "u2", Patron1, CatTech, LangEs, TRUE),
       Source(3, "n3", "u1", Patron1, CatSports, LangEs, TRUE) >>

\* a category whose code has an underscore in it
SourcesE ==
    << Source(1, "n1", "u1", Patron1, CatRealEstate, LangEs, TRUE),
       Source(3, "n3", "u2", Patron1, CatTech, LangEs, TRUE) >>

\* a category the configuration gives a newsCount of 0
SourcesF ==
    << Source(1, "n1", "u1", Patron1, CatCulture, LangEs, TRUE),
       Source(2, "n2", "u2", Patron1, CatCulture, LangEs, TRUE),
       Source(3, "n3", "u1", Patron1, CatTech, LangEs, TRUE) >>

Fallback1 ==
    [ID |-> 1, CategoryCode |-> CatSports, LanguageCode |-> LangEs, Filename |-> "f1.png"]

Fallback2 ==
    [ID |-> 2, CategoryCode |-> CatTech, LanguageCode |-> LangEs, Filename |-> "f2.png"]

\* the fallback table with the files present on disk
FallbackNone   == [table |-> <<>>, files |-> {}]
FallbackOk     == [table |-> <<Fallback1>>, files |-> {"f1.png"}]
FallbackNoFile == [table |-> <<Fallback1>>, files |-> {}]
FallbackTech   == [table |-> <<Fallback2>>, files |-> {"f2.png"}]

World(table, d1, d2, fb, flt) ==
    [sources |-> table, feeds |-> ("u1" :> d1) @@ ("u2" :> d2),
     fallbacks |-> fb.table, files |-> fb.files, filters |-> flt]

\* the installations explored: directory, feed documents, fallbacks, filters
Worlds ==
    { World(SourcesA, U1SameTitle, U2Repeats, FallbackOk,     FiltersMin2),
      World(SourcesB, U1Two,       U2Repeats, FallbackOk,     FiltersMin2),
      World(SourcesA, U1Stale,     U2Two,     FallbackOk,     FiltersMin2),
      World(SourcesA, U1Rejects,   U2Blank,   FallbackOk,     FiltersMin0),
      World(SourcesA, U1Rejects,   U2Blank,   FallbackNoFile, FiltersMin2),
      World(SourcesA, U1SameLink,  U2Two,     FallbackNone,   FiltersMin2),
      World(SourcesB, U1NoImage,   U2Two,     FallbackNoFile, FiltersMin0),
      World(SourcesA, U1NoImage,   U2Two,     FallbackTech,   FiltersMin2),
      World(SourcesC, U1Stale,     U2Two,     FallbackOk,     FiltersMin2),
      World(SourcesD, U1Two,       U2Pictures, FallbackOk,    FiltersMin2),
      World(SourcesE, U1Two,       U2Pictures, FallbackOk,    FiltersMin2),
      World(SourcesA, U1Hosted,    U2Two,     FallbackOk,     FiltersMin2),
      World(SourcesF, U1Two,       U2Pictures, FallbackOk,    FiltersMin2) }

(***************************************************************************)
(* State.                                                                  *)
(***************************************************************************)
VARIABLES
    sources,     \* template_news_sources, in primary-key order
    feeds,       \* the document each feed URL serves
    fallbacks,   \* fallback_images, in primary-key order
    files,       \* file names present under frontend/assets/images/fallback
    filters,     \* config.Filters
    store,       \* news_items, in insertion order
    now,         \* the wall clock, in hours
    run,         \* the running pipeline invocation: its position and locals
    last,        \* the candidate handled by the latest step, and how it ended
    runLog,      \* one summary for each finished invocation
    faults,      \* failures of the database or the network so far
    calc,        \* the latest call of a handler or helper outside a run: input, result
    parked,      \* the invocation of another goroutine, while it is not taking a step
    inflight,    \* the add-source requests between their duplicate check and their insert
    serial       \* the AUTO_INCREMENT counters of the sources and of the fallback images

vars == <<sources, feeds, fallbacks, files, filters, store, now, run, last, runLog,
          faults, calc, parked, inflight, serial>>

\* what a pipeline run only reads
env == <<sources, feeds, fallbacks, files, filters, calc, parked, inflight, serial>>

NoCalc == [op |-> "none"]

NoLast == [reason |-> "none"]

IdleRun ==
    [pc |-> "idle", mode |-> "none", t0 |-> 0, errs |-> {},
     fetched |-> FALSE, attempted |-> {}, fullKeys |-> {},
     groups |-> <<>>, pending |-> {}, key |-> <<>>, cat |-> <<>>, lang |-> <<>>,
     tope |-> 0, maxDays |-> 0, maxPerSource |-> 0,
     groupSources |-> <<>>, src |-> 0, feedItems |-> <<>>,
     noticias |-> <<>>, linksVistos |-> {}, titulosVistos |-> {},
     sourceCounts |-> <<>>, extractedCount |-> 0]

\* the greatest ID of a table
MaxID(table) ==
    IF table = <<>> THEN 0
    ELSE CHOOSE n \in {table[i].ID : i \in 1..Len(table)} :
            \A i \in 1..Len(table) : table[i].ID <= n

\* the counters of an installation none of whose last rows was deleted
Counters(table, images) == [sources |-> MaxID(table), fallbacks |-> MaxID(images)]

\* no other invocation is in progress
NoneParked == [run |-> IdleRun, overlap |-> FALSE]

Init ==
    /\ \E w \in Worlds :
          /\ sources = w.sources
          /\ feeds = w.feeds
          /\ fallbacks = w.fallbacks
          /\ files = w.files
          /\ filters = w.filters
    /\ store = <<>>
    /\ now = 0
    /\ run = IdleRun
    /\ last = NoLast
    /\ runLog = <<>>
    /\ faults = 0
    /\ calc = NoCalc
    /\ parked = NoneParked
    /\ inflight = {}
    /\ serial = Counters(sources, fallbacks)

(***************************************************************************)
(* Repositories.                                                           *)
(***************************************************************************)
\* newsSourceRepository.ListActive
ListActive(table) == SelectSeq(table, LAMBDA s : s.IsActive)

\* newsSourceRepository.FindByID: the row, or <<>> for nil
FindByID(table, id) ==
    IF \E i \in 1..Len(table) : table[i].ID = id
    THEN <<table[CHOOSE i \in 1..Len(table) : table[i].ID = id]>>
    ELSE <<>>

\* newsItemRepository.DeleteOlderThan
DeleteOlderThan(rows, date) == SelectSeq(rows, LAMBDA r : ~(r.CreatedAt < date))

\* a validation that leaves the title out
CreateRefusesUntitled(item) ==
    \/ item.Link = ""
    \/ item.Image = <<>>
    \/ item.LangCode = <<>>
    \/ item.CategoryCode = <<>>

\* newsItemRepository.Create refuses an item with an empty required field
CreateRefuses(item) ==
    \/ item.Title = <<>>
    \/ item.Link = ""
    \/ item.Image = <<>>
    \/ item.LangCode = <<>>
    \/ item.CategoryCode = <<>>

\* a lookup that matches on the language alone
GetByLang(table, categoryCode, languageCode) ==
    LET hit(i) == table[i].LanguageCode = languageCode
    IN  IF \E i \in 1..Len(table) : hit(i)
        THEN <<table[CHOOSE i \in 1..Len(table) :
                        hit(i) /\ \A j \in 1..(i - 1) : ~hit(j)]>>
        ELSE <<>>

\* fallbackImageRepository.GetByCategoryAndLang: the first matching row, or <<>>
GetByCategoryAndLang(table, categoryCode, languageCode) ==
    LET hit(i) == /\ table[i].CategoryCode = categoryCode
                  /\ table[i].LanguageCode = languageCode
    IN  IF \E i \in 1..Len(table) : hit(i)
        THEN <<table[CHOOSE i \in 1..Len(table) :
                        hit(i) /\ \A j \in 1..(i - 1) : ~hit(j)]>>
        ELSE <<>>

\* FetchNewsUseCase.getFallbackImage; dbErr: the lookup itself failed
getFallbackImage(table, categoryCode, languageCode, dbErr) ==
    LET found == GetByCategoryAndLang(table, categoryCode, languageCode)
    IN  IF dbErr \/ found = <<>> THEN NoImage
        ELSE <<FallbackDir, found[1].Filename>>

\* filepath.Base of an image URL
Base(image) == image[Len(image)]

(***************************************************************************)
(* The admission checks on one candidate, in the order the code runs them.  *)
(* The result names the check that discarded the candidate ("pass" when     *)
(* none did), the collaborators called on the way, and the image to store.  *)
(***************************************************************************)
Verdict(reason, calls, image) == [reason |-> reason, calls |-> calls, image |-> image]

\* the image steps of Execute, reached once the text, duplicate and age checks passed
ImageChecks(item, filter, cat, lang, table, disk, dbErr) ==
    LET fallbackImage == getFallbackImage(table, cat, lang, dbErr)
        needFallback == item.Image = NoImage /\ IsNoImage(filter)
        imagen == IF needFallback THEN fallbackImage ELSE item.Image
        looked == IF needFallback THEN {"getFallbackImage"} ELSE {}
    IN  IF item.Image = NoImage /\ ~IsNoImage(filter)
        THEN Verdict("no_image", {}, NoImage)
        ELSE IF imagen = NoImage
        THEN Verdict("no_fallback", looked, NoImage)
        ELSE IF ~Contains(imagen, <<FallbackDir>>)
        THEN LET v == ValidateImage(imagen)
             IN  IF v.err THEN Verdict("image_error", looked \cup {"ValidateImage"}, imagen)
                 ELSE IF ~v.valid
                 THEN Verdict("image_invalid", looked \cup {"ValidateImage"}, imagen)
                 ELSE Verdict("pass", looked \cup {"ValidateImage"}, imagen)
        ELSE IF Base(imagen) \notin disk
        THEN Verdict("fallback_missing", looked \cup {"Stat"}, imagen)
        ELSE Verdict("pass", looked \cup {"Stat"}, imagen)

\* the checks with the image qualified first
AdmissionImageFirst(item, filter, cat, lang, maxDays, linksVistos, titulosVistos, clock, flt, table, disk, dbErr) ==
    LET tituloLimpio == cleanText(item.Title)
        antiguedad == clock - item.PubDate
        img == ImageChecks(item, filter, cat, lang, table, disk, dbErr)
    IN  IF img.reason # "pass" THEN img
        ELSE IF isBlacklisted(tituloLimpio) THEN Verdict("blacklist", img.calls, NoImage)
        ELSE IF Len(tituloLimpio) < flt.MinTitle \/ Len(tituloLimpio) > flt.MaxTitle
        THEN Verdict("length", img.calls, NoImage)
        ELSE IF item.Link \in linksVistos THEN Verdict("dup_link", img.calls, NoImage)
        ELSE IF tituloLimpio \in titulosVistos THEN Verdict("dup_title", img.calls, NoImage)
        ELSE IF antiguedad > maxDays * Day THEN Verdict("old", img.calls, NoImage)
        ELSE img

\* the checks without the comparison against titulosVistos
AdmissionNoTitleCheck(item, filter, cat, lang, maxDays, linksVistos, titulosVistos, clock, flt, table, disk, dbErr) ==
    LET tituloLimpio == cleanText(item.Title)
        antiguedad == clock - item.PubDate
    IN  IF isBlacklisted(tituloLimpio) THEN Verdict("blacklist", {}, NoImage)
        ELSE IF Len(tituloLimpio) < flt.MinTitle \/ Len(tituloLimpio) > flt.MaxTitle
        THEN Verdict("length", {}, NoImage)
        ELSE IF item.Link \in linksVistos THEN Verdict("dup_link", {}, NoImage)
        ELSE IF antiguedad > maxDays * Day THEN Verdict("old", {}, NoImage)
        ELSE ImageChecks(item, filter, cat, lang, table, disk, dbErr)

\* the checks with the age compared in days against hours
AdmissionAgeInDays(item, filter, cat, lang, maxDays, linksVistos, titulosVistos, clock, flt, table, disk, dbErr) ==
    LET tituloLimpio == cleanText(item.Title)
        antiguedad == clock - item.PubDate
    IN  IF isBlacklisted(tituloLimpio) THEN Verdict("blacklist", {}, NoImage)
        ELSE IF Len(tituloLimpio) < flt.MinTitle \/ Len(tituloLimpio) > flt.MaxTitle
        THEN Verdict("length", {}, NoImage)
        ELSE IF item.Link \in linksVistos THEN Verdict("dup_link", {}, NoImage)
        ELSE IF tituloLimpio \in titulosVistos THEN Verdict("dup_title", {}, NoImage)
        ELSE IF antiguedad > maxDays * Day * Day THEN Verdict("old", {}, NoImage)
        ELSE ImageChecks(item, filter, cat, lang, table, disk, dbErr)

\* Execute, lines 170-258
Admission(item, filter, cat, lang, maxDays, linksVistos, titulosVistos, clock, flt, table, disk, dbErr) ==
    LET tituloLimpio == cleanText(item.Title)
        antiguedad == clock - item.PubDate
    IN  IF isBlacklisted(tituloLimpio) THEN Verdict("blacklist", {}, NoImage)
        ELSE IF Len(tituloLimpio) < flt.MinTitle \/ Len(tituloLimpio) > flt.MaxTitle
        THEN Verdict("length", {}, NoImage)
        ELSE IF item.Link \in linksVistos THEN Verdict("dup_link", {}, NoImage)
        ELSE IF tituloLimpio \in titulosVistos THEN Verdict("dup_title", {}, NoImage)
        ELSE IF antiguedad > maxDays * Day THEN Verdict("old", {}, NoImage)
        ELSE ImageChecks(item, filter, cat, lang, table, disk, dbErr)

\* ExecuteForSource, lines 381-470: the same checks, written a second time
AdmissionForSource(item, filter, cat, lang, maxDays, linksVistos, titulosVistos, clock, flt, table, disk, dbErr) ==
    LET tituloLimpio == cleanText(item.Title)
        antiguedad == clock - item.PubDate
    IN  IF isBlacklisted(tituloLimpio) THEN Verdict("blacklist", {}, NoImage)
        ELSE IF Len(tituloLimpio) < flt.MinTitle \/ Len(tituloLimpio) > flt.MaxTitle
        THEN Verdict("length", {}, NoImage)
        ELSE IF item.Link \in linksVistos THEN Verdict("dup_link", {}, NoImage)
        ELSE IF tituloLimpio \in titulosVistos THEN Verdict("dup_title", {}, NoImage)
        ELSE IF antiguedad > maxDays * Day THEN Verdict("old", {}, NoImage)
        ELSE ImageChecks(item, filter, cat, lang, table, disk, dbErr)

(***************************************************************************)
(* Steps shared by the two pipelines.                                      *)
(***************************************************************************)
Count(counts, name) == IF name \in DOMAIN counts THEN counts[name] ELSE 0

NewsItem(title, item, image, cat, lang, srcID, clock) ==
    [Title |-> title, Link |-> item.Link, Image |-> image, PubDate |-> item.PubDate,
     LangCode |-> lang, CategoryCode |-> cat, SourceID |-> srcID, CreatedAt |-> clock]

\* what the step saw of the candidate, kept for the properties
Seen(r, s, item, verdict, reason) ==
    [reason |-> reason, calls |-> verdict.calls, image |-> verdict.image,
     mode |-> r.mode, src |-> s.ID, filter |-> s.Filter, item |-> item,
     cat |-> r.cat, lang |-> r.lang, maxDays |-> r.maxDays, clock |-> now,
     links |-> r.linksVistos, titles |-> r.titulosVistos]

Summary(r, result) ==
    [mode |-> r.mode, src |-> r.src, result |-> result, errs |-> r.errs, t0 |-> r.t0,
     attempted |-> r.attempted, fullKeys |-> r.fullKeys, pending |-> r.pending,
     store |-> store]

\* the invocation returns: its summary is logged and its locals are gone
Return(r, result) ==
    /\ runLog' = Append(runLog, Summary(r, result))
    /\ run' = IdleRun
    /\ last' = NoLast

\* a failure of the database or of the network
Fault == faults < MaxFaults /\ faults' = faults + 1

NoFault == UNCHANGED faults

\* time passes; the clock is read by the purge and by each candidate's checks
Tick ==
    /\ run.pc \in {"clean", "item", "sitem"}
    /\ now < MaxTicks
    /\ now' = now + 1
    /\ UNCHANGED <<env, store, run, last, runLog, faults>>

(***************************************************************************)
(* Execute: the full run.                                                  *)
(***************************************************************************)
StartFull ==
    /\ run.pc = "idle"
    /\ Len(runLog) < MaxRuns
    /\ run' = [IdleRun EXCEPT !.pc = "clean", !.mode = "full", !.t0 = now]
    /\ UNCHANGED <<env, store, now, last, runLog, faults>>

\* cleanOldNews
CleanOldNews ==
    /\ run.pc = "clean"
    /\ store' = DeleteOlderThan(store, now)
    /\ run' = [run EXCEPT !.pc = "list"]
    /\ UNCHANGED <<env, now, last, runLog, faults>>

\* the purge fails: a warning is logged and the run goes on
CleanOldNewsFails ==
    /\ run.pc = "clean"
    /\ Fault
    /\ run' = [run EXCEPT !.pc = "list", !.errs = @ \cup {"purge"}]
    /\ UNCHANGED <<env, store, now, last, runLog>>

RECURSIVE GroupSources(_, _)
\* the sources of one key, in the order ListActive returned them
GroupSources(list, key) ==
    IF list = <<>> THEN <<>>
    ELSE IF GroupKey(Head(list).Cat, Head(list).Lang) = key
         THEN <<Head(list)>> \o GroupSources(Tail(list), key)
         ELSE GroupSources(Tail(list), key)

\* groups[key] = append(groups[key], src), lines 102-108
BuildGroups(list) ==
    [key \in {GroupKey(list[i].Cat, list[i].Lang) : i \in 1..Len(list)} |->
        GroupSources(list, key)]

\* ListActive fails: Execute returns the error
ListSourcesFails ==
    /\ run.pc = "list"
    /\ Fault
    /\ Return([run EXCEPT !.errs = @ \cup {"list"}], "error")
    /\ UNCHANGED <<env, store, now>>

ListSources ==
    /\ run.pc = "list"
    /\ LET groups == BuildGroups(ListActive(sources))
       IN  run' = [run EXCEPT !.pc = "group", !.groups = groups, !.pending = DOMAIN groups]
    /\ UNCHANGED <<env, store, now, last, runLog, faults>>

\* maxDays of a group with the extension whatever the number of sources
GroupMaxDaysExtended(lang, cat, nSources, flt) ==
    LET maxDays == GetMaxDays(lang, cat)
        extendedDays == flt.MaxDaysForNewsWithFewSources
    IN  IF extendedDays > maxDays THEN extendedDays ELSE maxDays

\* maxDays of a group, lines 123-130
GroupMaxDays(lang, cat, nSources, flt) ==
    LET maxDays == GetMaxDays(lang, cat)
        extendedDays == flt.MaxDaysForNewsWithFewSources
    IN  IF nSources <= 3 /\ extendedDays > maxDays THEN extendedDays ELSE maxDays

\* the range over the groups map takes the keys in any order
NextGroup ==
    /\ run.pc = "group"
    /\ \E key \in run.pending :
          LET parts == SplitN2(key)
              groupSources == run.groups[key]
          IN  IF Len(parts) # 2
              THEN run' = [run EXCEPT !.pending = @ \ {key}]
              ELSE run' = [run EXCEPT
                      !.pc = "fetch", !.pending = @ \ {key}, !.key = key,
                      !.cat = parts[1], !.lang = parts[2],
                      !.tope = getNewsCount(parts[2], parts[1]),
                      !.maxDays = GroupMaxDays(parts[2], parts[1], Len(groupSources), filters),
                      !.groupSources = groupSources,
                      !.noticias = <<>>, !.linksVistos = {}, !.titulosVistos = {},
                      !.sourceCounts = <<>>]
    /\ UNCHANGED <<env, store, now, last, runLog, faults>>

\* every group is done: Execute returns nil
FullDone ==
    /\ run.pc = "group"
    /\ run.pending = {}
    /\ Return(run, "ok")
    /\ UNCHANGED <<env, store, now, faults>>

\* rssFetcher.Fetch of the next source of the group
FetchSource ==
    /\ run.pc = "fetch"
    /\ run.groupSources # <<>>
    /\ LET s == Head(run.groupSources)
       IN  run' = [run EXCEPT
               !.pc = "item", !.src = s.ID, !.groupSources = Tail(@),
               !.fetched = TRUE, !.attempted = @ \cup {s.ID},
               !.feedItems = FetchItems(feeds[s.RSSURL], s.Filter),
               !.maxPerSource = GetMaxPerSource(run.lang, run.cat)]
    /\ UNCHANGED <<env, store, now, last, runLog, faults>>

\* a failed fetch that ends the run with the error
FetchSourceAborts ==
    /\ run.pc = "fetch"
    /\ run.groupSources # <<>>
    /\ Fault
    /\ Return([run EXCEPT !.errs = @ \cup {"fetch"},
                          !.attempted = @ \cup {Head(run.groupSources).ID}], "error")
    /\ UNCHANGED <<env, store, now>>

\* the feed cannot be fetched or parsed: the source is skipped
FetchSourceFails ==
    /\ run.pc = "fetch"
    /\ run.groupSources # <<>>
    /\ Fault
    /\ LET s == Head(run.groupSources)
       IN  run' = [run EXCEPT
               !.groupSources = Tail(@), !.errs = @ \cup {"fetch"},
               !.fetched = TRUE, !.attempted = @ \cup {s.ID}]
    /\ UNCHANGED <<env, store, now, last, runLog>>

\* no source is left in the group
GroupDone ==
    /\ run.pc = "fetch"
    /\ run.groupSources = <<>>
    /\ run' = [run EXCEPT !.pc = "group"]
    /\ UNCHANGED <<env, store, now, last, runLog, faults>>

CurrentSource == FindByID(sources, run.src)[1]

\* the loop over the items ended by the source cap alone
LoopBreaksOnSourceOnly(noticias, tope, sourceCounts, name, maxPerSource) ==
    Count(sourceCounts, name) >= maxPerSource

\* the loop over the items ended by the group cap alone
LoopBreaksOnGroupOnly(noticias, tope, sourceCounts, name, maxPerSource) ==
    Len(noticias) >= tope

\* the group cap or the source cap ends the loop over the items, lines 159-168
LoopBreaks(noticias, tope, sourceCounts, name, maxPerSource) ==
    \/ Len(noticias) >= tope
    \/ Count(sourceCounts, name) >= maxPerSource

\* the failures one candidate can meet: the fallback lookup, the insert
CandidateFaults == {"none", "lookup", "create"}

\* the iteration with the bookkeeping done before the insert is known to have worked
CandidateCountsFailure ==
    /\ run.pc = "item"
    /\ run.feedItems # <<>>
    /\ ~LoopBreaks(run.noticias, run.tope, run.sourceCounts,
                   CurrentSource.SourceName, run.maxPerSource)
    /\ \E fault \in CandidateFaults :
          LET s == CurrentSource
              item == Head(run.feedItems)
              tituloLimpio == cleanText(item.Title)
              v == Admission(item, s.Filter, run.cat, run.lang, run.maxDays,
                             run.linksVistos, run.titulosVistos,
                             now, filters, fallbacks, files, fault = "lookup")
              newsItem == NewsItem(tituloLimpio, item, v.image, run.cat, run.lang, s.ID, now)
              imgErr == IF v.reason = "image_error" THEN {"image"} ELSE {}
          IN  /\ fault = "lookup" => "getFallbackImage" \in v.calls
              /\ fault = "create" => v.reason = "pass"
              /\ IF fault = "none" THEN NoFault ELSE Fault
              /\ IF v.reason # "pass"
                 THEN /\ run' = [run EXCEPT !.feedItems = Tail(@),
                                   !.errs = @ \cup imgErr \cup
                                            (IF fault = "lookup" THEN {"lookup"} ELSE {})]
                      /\ last' = Seen(run, s, item, v, v.reason)
                      /\ store' = store
                 ELSE IF fault = "create" \/ CreateRefuses(newsItem)
                 THEN /\ run' = [run EXCEPT
                             !.feedItems = Tail(@),
                             !.errs = @ \cup {"create"},
                             !.noticias = Append(@, newsItem),
                             !.linksVistos = @ \cup {item.Link},
                             !.titulosVistos = @ \cup {tituloLimpio},
                             !.sourceCounts =
                                 (s.SourceName :> (Count(@, s.SourceName) + 1)) @@ @]
                      /\ last' = Seen(run, s, item, v, "create_error")
                      /\ store' = store
                 ELSE /\ store' = Append(store, newsItem)
                      /\ run' = [run EXCEPT
                             !.feedItems = Tail(@),
                             !.noticias = Append(@, newsItem),
                             !.linksVistos = @ \cup {item.Link},
                             !.titulosVistos = @ \cup {tituloLimpio},
                             !.sourceCounts =
                                 (s.SourceName :> (Count(@, s.SourceName) + 1)) @@ @]
                      /\ last' = Seen(run, s, item, v, "admitted")
    /\ UNCHANGED <<env, now, runLog>>

\* one iteration of the loop over feedItems, lines 158-288
Candidate ==
    /\ run.pc = "item"
    /\ run.feedItems # <<>>
    /\ ~LoopBreaks(run.noticias, run.tope, run.sourceCounts,
                   CurrentSource.SourceName, run.maxPerSource)
    /\ \E fault \in CandidateFaults :
          LET s == CurrentSource
              item == Head(run.feedItems)
              tituloLimpio == cleanText(item.Title)
              v == Admission(item, s.Filter, run.cat, run.lang, run.maxDays,
                             run.linksVistos, run.titulosVistos,
                             now, filters, fallbacks, files, fault = "lookup")
              newsItem == NewsItem(tituloLimpio, item, v.image, run.cat, run.lang, s.ID, now)
              imgErr == IF v.reason = "image_error" THEN {"image"} ELSE {}
          IN  /\ fault = "lookup" => "getFallbackImage" \in v.calls
              /\ fault = "create" => v.reason = "pass"
              /\ IF fault = "none" THEN NoFault ELSE Fault
              /\ IF v.reason # "pass"
                 THEN /\ run' = [run EXCEPT !.feedItems = Tail(@),
                                   !.errs = @ \cup imgErr \cup
                                            (IF fault = "lookup" THEN {"lookup"} ELSE {})]
                      /\ last' = Seen(run, s, item, v, v.reason)
                      /\ store' = store
                 ELSE IF fault = "create" \/ CreateRefuses(newsItem)
                 THEN /\ run' = [run EXCEPT !.feedItems = Tail(@),
                                            !.errs = @ \cup {"create"}]
                      /\ last' = Seen(run, s, item, v, "create_error")
                      /\ store' = store
                 ELSE /\ store' = Append(store, newsItem)
                      /\ run' = [run EXCEPT
                             !.feedItems = Tail(@),
                             !.noticias = Append(@, newsItem),
                             !.linksVistos = @ \cup {item.Link},
                             !.titulosVistos = @ \cup {tituloLimpio},
                             !.sourceCounts =
                                 (s.SourceName :> (Count(@, s.SourceName) + 1)) @@ @]
                      /\ last' = Seen(run, s, item, v, "admitted")
    /\ UNCHANGED <<env, now, runLog>>

\* the loop over the items is over; a full group ends the loop over its sources
SourceDone ==
    /\ run.pc = "item"
    /\ \/ run.feedItems = <<>>
       \/ LoopBreaks(run.noticias, run.tope, run.sourceCounts,
                     CurrentSource.SourceName, run.maxPerSource)
    /\ IF Len(run.noticias) >= run.tope
       THEN run' = [run EXCEPT !.pc = "group", !.feedItems = <<>>,
                               !.fullKeys = @ \cup {run.key}]
       ELSE run' = [run EXCEPT !.pc = "fetch", !.feedItems = <<>>]
    /\ UNCHANGED <<env, store, now, last, runLog, faults>>

(***************************************************************************)
(* ExecuteForSource: the run for one source.                               *)
(***************************************************************************)
\* the ids a caller may pass; 9 is the id of no row
SourceIds == {3, 9}

\* a start that clears the table as the full run does
StartSinglePurging ==
    /\ run.pc = "idle"
    /\ Len(runLog) < MaxRuns
    /\ \E sourceID \in SourceIds :
          LET found == FindByID(sources, sourceID)
          IN  /\ found # <<>>
              /\ run' = [IdleRun EXCEPT
                     !.pc = "sfetch", !.mode = "single", !.src = sourceID, !.t0 = now,
                     !.cat = found[1].Cat, !.lang = found[1].Lang,
                     !.maxDays = GetMaxDays(found[1].Lang, found[1].Cat),
                     !.maxPerSource = GetMaxPerSource(found[1].Lang, found[1].Cat)]
    /\ store' = <<>>
    /\ UNCHANGED <<env, now, faults, last, runLog>>

StartSingle ==
    /\ run.pc = "idle"
    /\ Len(runLog) < MaxRuns
    /\ \E sourceID \in SourceIds :
          LET found == FindByID(sources, sourceID)
          IN  IF found = <<>>
              THEN Return([IdleRun EXCEPT !.mode = "single", !.src = sourceID,
                                          !.t0 = now, !.errs = {"not_found"}], "error")
              ELSE /\ run' = [IdleRun EXCEPT
                          !.pc = "sfetch", !.mode = "single", !.src = sourceID, !.t0 = now,
                          !.cat = found[1].Cat, !.lang = found[1].Lang,
                          !.maxDays = GetMaxDays(found[1].Lang, found[1].Cat),
                          !.maxPerSource = GetMaxPerSource(found[1].Lang, found[1].Cat)]
                   /\ UNCHANGED <<last, runLog>>
    /\ UNCHANGED <<env, store, now, faults>>

\* FindByID fails: ExecuteForSource returns the error
StartSingleFails ==
    /\ run.pc = "idle"
    /\ Len(runLog) < MaxRuns
    /\ Fault
    /\ \E sourceID \in SourceIds :
          Return([IdleRun EXCEPT !.mode = "single", !.src = sourceID,
                                 !.t0 = now, !.errs = {"find"}], "error")
    /\ UNCHANGED <<env, store, now>>

FetchSingle ==
    /\ run.pc = "sfetch"
    /\ run' = [run EXCEPT !.pc = "sitem", !.fetched = TRUE,
                          !.attempted = {run.src},
                          !.feedItems = FetchItems(feeds[CurrentSource.RSSURL],
                                                   CurrentSource.Filter)]
    /\ UNCHANGED <<env, store, now, last, runLog, faults>>

\* the feed cannot be fetched or parsed: ExecuteForSource returns the error
FetchSingleFails ==
    /\ run.pc = "sfetch"
    /\ Fault
    /\ Return([run EXCEPT !.errs = @ \cup {"fetch"}, !.attempted = {run.src}], "error")
    /\ UNCHANGED <<env, store, now>>

\* one iteration of the loop over feedItems, lines 366-507
CandidateSingle ==
    /\ run.pc = "sitem"
    /\ run.feedItems # <<>>
    /\ ~(run.extractedCount >= run.maxPerSource)
    /\ \E fault \in CandidateFaults :
          LET s == CurrentSource
              item == Head(run.feedItems)
              tituloLimpio == cleanText(item.Title)
              v == AdmissionForSource(item, s.Filter, run.cat, run.lang, run.maxDays,
                                      run.linksVistos, run.titulosVistos,
                                      now, filters, fallbacks, files, fault = "lookup")
              newsItem == NewsItem(tituloLimpio, item, v.image, run.cat, run.lang, s.ID, now)
              imgErr == IF v.reason = "image_error" THEN {"image"} ELSE {}
          IN  /\ fault = "lookup" => "getFallbackImage" \in v.calls
              /\ fault = "create" => v.reason = "pass"
              /\ IF fault = "none" THEN NoFault ELSE Fault
              /\ IF v.reason # "pass"
                 THEN /\ run' = [run EXCEPT !.feedItems = Tail(@),
                                   !.errs = @ \cup imgErr \cup
                                            (IF fault = "lookup" THEN {"lookup"} ELSE {})]
                      /\ last' = Seen(run, s, item, v, v.reason)
                      /\ store' = store
                 ELSE IF fault = "create" \/ CreateRefuses(newsItem)
                 THEN /\ run' = [run EXCEPT !.feedItems = Tail(@),
                                            !.errs = @ \cup {"create"}]
                      /\ last' = Seen(run, s, item, v, "create_error")
                      /\ store' = store
                 ELSE /\ store' = Append(store, newsItem)
                      /\ run' = [run EXCEPT
                             !.feedItems = Tail(@),
                             !.noticias = Append(@, newsItem),
                             !.linksVistos = @ \cup {item.Link},
                             !.titulosVistos = @ \cup {tituloLimpio},
                             !.extractedCount = @ + 1]
                      /\ last' = Seen(run, s, item, v, "admitted")
    /\ UNCHANGED <<env, now, runLog>>

\* the loop is over: ExecuteForSource returns nil
SingleDone ==
    /\ run.pc = "sitem"
    /\ \/ run.feedItems = <<>>
       \/ run.extractedCount >= run.maxPerSource
    /\ Return(run, "ok")
    /\ UNCHANGED <<env, store, now, faults>>

(***************************************************************************)
(* The system: runs are started by main, by the cron job and by the HTTP   *)
(* handlers.                                                               *)
(***************************************************************************)
Next ==
    \/ Tick
    \/ StartFull
    \/ CleanOldNews
    \/ CleanOldNewsFails
    \/ ListSources
    \/ ListSourcesFails
    \/ NextGroup
    \/ FullDone
    \/ FetchSource
    \/ FetchSourceFails
    \/ GroupDone
    \/ Candidate
    \/ SourceDone
    \/ StartSingle
    \/ StartSingleFails
    \/ FetchSingle
    \/ FetchSingleFails
    \/ CandidateSingle
    \/ SingleDone

Spec == Init /\ [][Next]_vars

(***************************************************************************)
(* Properties.                                                             *)
(***************************************************************************)
Qualifiers == {"ValidateImage", "Stat"}

Handled == last.reason # "none"

LastTitle == cleanText(last.item.Title)

LastBlack == isBlacklisted(LastTitle)

LastBadLength == Len(LastTitle) < filters.MinTitle \/ Len(LastTitle) > filters.MaxTitle

LastDupLink == last.item.Link \in last.links

LastDupTitle == LastTitle \in last.titles

LastOld == last.clock - last.item.PubDate > last.maxDays * Day

\* C1: in both pipelines the first failing check, in the order blacklist, title
\* length, link duplicate, title duplicate, age, discards the candidate; the image
\* qualifier (ValidateImage or the fallback file check) runs only for a candidate
\* that passed all five, and no stored item has a blacklisted title.
C1_CheckOrder ==
    /\ Handled =>
          /\ (last.calls \cap Qualifiers # {}) =>
                ~(LastBlack \/ LastBadLength \/ LastDupLink \/ LastDupTitle \/ LastOld)
          /\ LastBlack => last.reason = "blacklist"
          /\ (~LastBlack /\ LastBadLength) => last.reason = "length"
          /\ (~LastBlack /\ ~LastBadLength /\ LastDupLink) => last.reason = "dup_link"
          /\ (~LastBlack /\ ~LastBadLength /\ ~LastDupLink /\ LastDupTitle)
                => last.reason = "dup_title"
          /\ (~LastBlack /\ ~LastBadLength /\ ~LastDupLink /\ ~LastDupTitle /\ LastOld)
                => last.reason = "old"
    /\ \A i \in 1..Len(store) : ~isBlacklisted(store[i].Title)

\* a blacklisted candidate whose image would qualify was discarded
C1_Witness ==
    /\ Handled
    /\ last.reason = "blacklist"
    /\ last.item.Image = ImgOk
    /\ last.calls = {}

\* C2: in a full run no two items admitted for the current group share a link,
\* and no two share a cleaned title, whatever source they came from.
C2_NoDuplicates ==
    run.mode = "full" =>
        \A i, j \in 1..Len(run.noticias) :
            i < j => /\ run.noticias[i].Link # run.noticias[j].Link
                     /\ run.noticias[i].Title # run.noticias[j].Title

\* a candidate was discarded for repeating the title of an item another source
\* of the group gave
C2_Witness ==
    /\ run.mode = "full"
    /\ Handled
    /\ last.reason = "dup_title"
    /\ \E k \in 1..Len(run.noticias) :
          /\ run.noticias[k].Title = LastTitle
          /\ run.noticias[k].SourceID # last.src

\* C3: in a full run the items admitted for the current group never exceed the
\* newsCount resolved for the group.
C3_GroupCap ==
    run.mode = "full" => Len(run.noticias) <= getNewsCount(run.lang, run.cat)

\* the group reached its newsCount while its source, still under its own cap,
\* had candidates left
C3_Witness ==
    /\ run.mode = "full"
    /\ run.pc = "item"
    /\ Len(run.noticias) = getNewsCount(run.lang, run.cat)
    /\ run.feedItems # <<>>
    /\ Count(run.sourceCounts, CurrentSource.SourceName) < run.maxPerSource

FromSource(items, id) == {i \in 1..Len(items) : items[i].SourceID = id}

\* C4: in a full run no source gives more than maxPerSource admitted items to
\* its group, and a single-source run admits at most maxPerSource items.
C4_SourceCap ==
    /\ run.mode = "full" =>
          \A id \in {run.noticias[i].SourceID : i \in 1..Len(run.noticias)} :
              Cardinality(FromSource(run.noticias, id)) <= GetMaxPerSource(run.lang, run.cat)
    /\ run.mode = "single" =>
          /\ Len(run.noticias) <= GetMaxPerSource(run.lang, run.cat)
          /\ run.extractedCount = Len(run.noticias)

\* a source reached its maxPerSource with candidates left and room in the group
C4_Witness ==
    /\ run.mode = "full"
    /\ run.pc = "item"
    /\ run.feedItems # <<>>
    /\ Len(run.noticias) < getNewsCount(run.lang, run.cat)
    /\ Cardinality(FromSource(run.noticias, run.src)) = GetMaxPerSource(run.lang, run.cat)

ActiveInGroup(cat, lang) ==
    {i \in 1..Len(sources) :
        sources[i].IsActive /\ sources[i].Cat = cat /\ sources[i].Lang = lang}

\* C5: an admitted item has a cleaned title of length in [minTitle, maxTitle], and
\* when it was checked its age was at most maxDays*24h for the maxDays its run
\* resolved for its group.
C5_TitleAndAge ==
    /\ (Handled /\ last.reason = "admitted") =>
          /\ ~LastBadLength
          /\ last.clock - last.item.PubDate <= last.maxDays * Day
          /\ last.maxDays =
                IF last.mode = "full"
                THEN GroupMaxDays(last.lang, last.cat,
                                  Cardinality(ActiveInGroup(last.cat, last.lang)), filters)
                ELSE GetMaxDays(last.lang, last.cat)
    /\ \A i \in 1..Len(store) :
          /\ Len(store[i].Title) >= filters.MinTitle
          /\ Len(store[i].Title) <= filters.MaxTitle

\* an item was admitted at exactly the greatest age allowed
C5_Witness ==
    /\ Handled
    /\ last.reason = "admitted"
    /\ last.clock - last.item.PubDate = last.maxDays * Day

\* C6: in a full run whose purge did not fail, no item is left in the store
\* when the run comes to fetch its first feed.
C6_PurgedBeforeFetch ==
    (/\ run.mode = "full"
     /\ run.pc \in {"list", "group", "fetch"}
     /\ ~run.fetched
     /\ "purge" \notin run.errs) => store = <<>>

Titles(items) == {items[i].Title : i \in 1..Len(items)}

\* C7: two full runs one right after the other, with no failure and the clock
\* not advanced, leave the store with the same number of items and the same
\* titles after the second as after the first.
C7_Idempotent ==
    (/\ Len(runLog) = 2
     /\ \A i \in 1..2 : runLog[i].mode = "full" /\ runLog[i].result = "ok"
     /\ faults = 0
     /\ now = 0) =>
        /\ Len(runLog[2].store) = Len(runLog[1].store)
        /\ Titles(runLog[2].store) = Titles(runLog[1].store)

FallbackRows(cat, lang) ==
    {i \in 1..Len(fallbacks) :
        fallbacks[i].CategoryCode = cat /\ fallbacks[i].LanguageCode = lang}

\* C9: for a source with a no-image pattern and a candidate without image, an
\* admitted item carries /images/fallback/<filename> of a fallback of its
\* category and language, and no item is admitted when there is no such fallback.
C9_FallbackImage ==
    (Handled /\ IsNoImage(last.filter) /\ last.item.Image = NoImage
        /\ last.reason = "admitted") =>
        /\ last.image # NoImage
        /\ \E i \in FallbackRows(last.cat, last.lang) :
              last.image = <<FallbackDir, fallbacks[i].Filename>>
        /\ store[Len(store)].Image = last.image

\* an item of a no-image source was admitted with the fallback image
C9_Witness ==
    /\ Handled
    /\ IsNoImage(last.filter)
    /\ last.item.Image = NoImage
    /\ last.reason = "admitted"
    /\ last.image = <<FallbackDir, "f1.png">>

\* C10: every stored item has a non-empty title, link, image, language code and
\* category code.
C10_RequiredFields ==
    \A i \in 1..Len(store) :
        /\ store[i].Title # <<>>
        /\ store[i].Link # ""
        /\ store[i].Image # <<>>
        /\ store[i].LangCode # <<>>
        /\ store[i].CategoryCode # <<>>

\* a candidate that passed every check with an empty cleaned title was refused
\* by Create
C10_Witness ==
    /\ Handled
    /\ last.reason = "create_error"
    /\ LastTitle = <<>>
    /\ faults = 0

StoreBefore(i) == IF i = 1 THEN <<>> ELSE runLog[i - 1].store

IsPrefix(a, b) == Len(a) <= Len(b) /\ SubSeq(b, 1, Len(a)) = a

\* C11: a single-source run deletes nothing and adds only items of its source:
\* the store before it is a prefix of the store during and after it, every row
\* past that prefix has the run's source id, and a run that returned an error
\* left the store as it was.
C11_SingleRunFrame ==
    /\ run.mode = "single" =>
          /\ IsPrefix(StoreBefore(Len(runLog) + 1), store)
          /\ \A k \in (Len(StoreBefore(Len(runLog) + 1)) + 1)..Len(store) :
                store[k].SourceID = run.src
    /\ \A i \in 1..Len(runLog) :
          runLog[i].mode = "single" =>
              /\ IsPrefix(StoreBefore(i), runLog[i].store)
              /\ \A k \in (Len(StoreBefore(i)) + 1)..Len(runLog[i].store) :
                    runLog[i].store[k].SourceID = runLog[i].src
              /\ runLog[i].result = "error" => runLog[i].store = StoreBefore(i)

\* a single-source run ended well after adding an item to a store that held some
C11_Witness ==
    /\ Len(runLog) = 2
    /\ runLog[2].mode = "single"
    /\ runLog[2].result = "ok"
    /\ runLog[1].store # <<>>
    /\ Len(runLog[2].store) > Len(runLog[1].store)

\* the age limit of a run for a group, in days
AgeLimit(mode, lang, cat) ==
    LET configured == GetMaxDays(lang, cat)
        extended == filters.MaxDaysForNewsWithFewSources
    IN  IF mode = "full" /\ Cardinality(ActiveInGroup(cat, lang)) <= 3 /\ extended > configured
        THEN extended
        ELSE configured

\* C18: a full run checks the age of a group's candidates against the configured
\* maxDays, or against the larger of it and MaxDaysForNewsWithFewSources when the
\* group has at most 3 active sources; a single-source run always checks against
\* the configured maxDays.
C18_FewSourcesAgeLimit ==
    /\ run.pc \in {"fetch", "item", "sfetch", "sitem"} =>
          run.maxDays = AgeLimit(run.mode, run.lang, run.cat)
    /\ (Handled /\ last.reason = "admitted") =>
          last.clock - last.item.PubDate <= AgeLimit(last.mode, last.lang, last.cat) * Day
    /\ (Handled /\ last.reason = "old") =>
          last.clock - last.item.PubDate > AgeLimit(last.mode, last.lang, last.cat) * Day

\* a full run discarded as too old, in a group of four active sources, a candidate
\* that the extended limit would have let through
C18_Witness ==
    /\ Handled
    /\ last.mode = "full"
    /\ last.reason = "old"
    /\ Cardinality(ActiveInGroup(last.cat, last.lang)) = 4
    /\ filters.MaxDaysForNewsWithFewSources > GetMaxDays(last.lang, last.cat)
    /\ last.clock - last.item.PubDate <= filters.MaxDaysForNewsWithFewSources * Day

(***************************************************************************)
(* The fetcher on the entries the feed parser delivers.  Text is a          *)
(* sequence of characters, a field name or a URL part one token.           *)
(***************************************************************************)
\* strings.Index(s, pat) counted from 1; 0 when absent
IndexSeq(s, pat) ==
    IF Contains(s, pat)
    THEN CHOOSE i \in 1..(Len(s) - Len(pat) + 1) :
            /\ SubSeq(s, i, i + Len(pat) - 1) = pat
            /\ \A j \in 1..(i - 1) : SubSeq(s, j, j + Len(pat) - 1) # pat
    ELSE 0

RECURSIVE Split(_, _)
\* strings.Split(s, sep) for a one-token separator
Split(s, sep) ==
    LET i == IndexOf(s, sep)
    IN  IF i = 0 THEN <<s>>
        ELSE <<SubSeq(s, 1, i - 1)>> \o Split(SubSeq(s, i + 1, Len(s)), sep)

\* strings.HasPrefix
HasPrefix(s, prefix) == Len(s) >= Len(prefix) /\ SubSeq(s, 1, Len(prefix)) = prefix

\* F of the value of v, with v worked out once
With(v, F(_)) == CHOOSE y \in {F(x) : x \in {v}} : TRUE

\* a call that returned the string, and a call that panicked
Returned(str) == [panic |-> FALSE, value |-> str]
Panicked == [panic |-> TRUE, value |-> <<>>]

ImgOpen == <<"<", "i", "m", "g", " ">>
SrcEq == <<"s", "r", "c", "=">>

\* extractImgFromDescription; an index past the end of imgTag is a runtime panic
extractImgFromDescription(desc) ==
    LET start == IndexSeq(desc, ImgOpen)
        imgTag0 == SubSeq(desc, start, Len(desc))
        end == IndexOf(imgTag0, ">")
        imgTag == SubSeq(imgTag0, 1, end - 1)
        srcIdx == IndexSeq(imgTag, SrcEq)
        quote == imgTag[srcIdx + 4]
        rest == SubSeq(imgTag, srcIdx + 5, Len(imgTag))
        endQuote == IndexOf(rest, quote)
    IN  IF start = 0 THEN Returned(<<>>)
        ELSE IF end = 0 THEN Returned(<<>>)
        ELSE IF srcIdx = 0 THEN Returned(<<>>)
        ELSE IF srcIdx + 4 > Len(imgTag) THEN Panicked
        ELSE IF endQuote = 0 THEN Returned(<<>>)
        ELSE Returned(SubSeq(rest, 1, endQuote - 1))

\* a parsed time: seconds and the fraction below the second
Time(s, ns) == [s |-> s, ns |-> ns]

\* the seconds an RFC 3339 text can name here
SecText == <<"1s", "2s", "3s", "4s">>

\* Time.Format(time.RFC3339): the layout has no fraction of a second
FormatRFC3339(t) == <<SecText[t.s]>>

\* time.Parse(time.RFC3339, str)
ParseRFC3339(str) ==
    IF Len(str) = 1 /\ \E k \in 1..Len(SecText) : SecText[k] = str[1]
    THEN [ok |-> TRUE, t |-> Time(CHOOSE k \in 1..Len(SecText) : SecText[k] = str[1], 0)]
    ELSE [ok |-> FALSE, t |-> Time(0, 0)]

\* gofeed.Item: a nil pointer is <<>>, a pointer to t is <<t>>; an extension
\* element is its attribute map
Item(title, link, desc, encl, content, thumbs, published, updated) ==
    [Title |-> title, Link |-> link, Description |-> desc, Enclosures |-> encl,
     MediaContent |-> content, MediaThumbnail |-> thumbs,
     PublishedParsed |-> published, UpdatedParsed |-> updated]

Enclosure(url, type) == [URL |-> url, Type |-> type]

\* getMediaContent, getMediaThumbnail: the url attribute of the first element
getMedia(elements) ==
    IF Len(elements) > 0 /\ "url" \in DOMAIN elements[1] THEN elements[1].url ELSE <<>>

getMediaContent(item) == getMedia(item.MediaContent)

getMediaThumbnail(item) == getMedia(item.MediaThumbnail)

RECURSIVE extractAlternatives(_, _)
\* the loop of extractFieldFromItem over the alternatives
extractAlternatives(item, alternatives) ==
    IF alternatives = <<>> THEN Returned(<<>>)
    ELSE LET f == TrimSpace(Head(alternatives))
             next == extractAlternatives(item, Tail(alternatives))
             img == extractImgFromDescription(item.Description)
         IN  CASE f = <<"title">> ->
                    IF item.Title # <<>> THEN Returned(item.Title) ELSE next
               [] f = <<"media:content">> ->
                    IF getMediaContent(item) # <<>>
                    THEN Returned(getMediaContent(item)) ELSE next
               [] f = <<"media:thumbnail">> ->
                    IF getMediaThumbnail(item) # <<>>
                    THEN Returned(getMediaThumbnail(item)) ELSE next
               [] f = <<"enclosure">> ->
                    IF Len(item.Enclosures) > 0
                       /\ HasPrefix(item.Enclosures[1].Type, <<"image/">>)
                    THEN Returned(item.Enclosures[1].URL) ELSE next
               [] f = <<"description_img">> ->
                    IF img.panic THEN Panicked
                    ELSE IF img.value # <<>> THEN img ELSE next
               [] f = <<"link">> ->
                    IF item.Link # <<>> THEN Returned(item.Link) ELSE next
               [] f = <<"pubDate">> ->
                    IF item.PublishedParsed # <<>>
                    THEN Returned(FormatRFC3339(item.PublishedParsed[1]))
                    ELSE IF item.UpdatedParsed # <<>>
                    THEN Returned(FormatRFC3339(item.UpdatedParsed[1]))
                    ELSE next
               [] OTHER -> next

\* extractFieldFromItem
extractFieldFromItem(item, field) == extractAlternatives(item, Split(field, "|"))

Patron2 == <<"patron2">>
Patron3 == <<"patron3">>
Patron2NoImage == <<"patron2", "_", "no_image">>
Patron3NoImage == <<"patron3", "_", "no_image">>

Pattern(title, image, link, date) ==
    [TitleField |-> title, ImageField |-> image, LinkField |-> link, DateField |-> date]

\* extractionPatterns[filter]; a missing key gives the zero value
extractionPatterns(filter) ==
    CASE filter = Patron1 ->
            Pattern(<<"title">>, <<"media:content", "|", "media:thumbnail">>,
                    <<"link">>, <<"pubDate">>)
      [] filter = Patron2 ->
            Pattern(<<"title">>, <<"enclosure", "|", "media:content">>,
                    <<"link">>, <<"pubDate">>)
      [] filter = Patron3 ->
            Pattern(<<"title">>, <<"description_img">>, <<"link">>, <<"pubDate">>)
      [] filter \in {Patron1NoImage, Patron2NoImage, Patron3NoImage} ->
            Pattern(<<"title">>, <<>>, <<"link">>, <<"pubDate">>)
      [] OTHER -> Pattern(<<>>, <<>>, <<>>, <<>>)

\* the date of an entry, lines 128-154
resolveDate(item, filter, dateField, clock) ==
    LET own == ParseRFC3339(extractFieldFromItem(item, dateField).value)
        named == ParseRFC3339(
                    extractFieldFromItem(item, extractionPatterns(filter).DateField).value)
    IN  IF dateField # <<>>
        THEN IF own.ok THEN own.t ELSE clock
        ELSE IF named.ok THEN named.t
        ELSE IF item.PublishedParsed # <<>> THEN item.PublishedParsed[1]
        ELSE IF item.UpdatedParsed # <<>> THEN item.UpdatedParsed[1]
        ELSE clock

\* one turn of the loop of Fetch: the entry is dropped, or kept as a candidate,
\* or an extraction panics
fetchEntry(item, filter, titleField, imageField, linkField, dateField, clock) ==
    LET pattern == extractionPatterns(filter)
        dropped == [panic |-> FALSE, items |-> <<>>]
        panicked == [panic |-> TRUE, items |-> <<>>]
        turn(title, image, link, date, pubDate) ==
            IF title.panic THEN panicked
            ELSE IF title.value = <<>> THEN dropped
            ELSE IF image.panic THEN panicked
            ELSE IF link.panic THEN panicked
            ELSE IF link.value = <<>> THEN dropped
            ELSE IF date.panic THEN panicked
            ELSE [panic |-> FALSE,
                  items |-> << [Title   |-> cleanCDATA(title.value),
                                Link    |-> link.value,
                                Image   |-> image.value,
                                PubDate |-> pubDate] >>]
    IN  With(<< extractFieldFromItem(
                    item, IF titleField # <<>> THEN titleField ELSE pattern.TitleField),
                IF imageField # <<>> THEN extractFieldFromItem(item, imageField)
                ELSE IF ~IsNoImage(filter)
                THEN extractFieldFromItem(item, pattern.ImageField)
                ELSE Returned(<<>>),
                extractFieldFromItem(
                    item, IF linkField # <<>> THEN linkField ELSE pattern.LinkField),
                extractFieldFromItem(
                    item, IF dateField # <<>> THEN dateField ELSE pattern.DateField),
                resolveDate(item, filter, dateField, clock) >>,
             LAMBDA x : turn(x[1], x[2], x[3], x[4], x[5]))

RECURSIVE fetchLoop(_, _, _, _, _, _, _)
\* the loop of Fetch over the entries
fetchLoop(entries, filter, titleField, imageField, linkField, dateField, clock) ==
    IF entries = <<>> THEN [panic |-> FALSE, items |-> <<>>]
    ELSE LET join(one, rest) ==
                IF one.panic \/ rest.panic THEN [panic |-> TRUE, items |-> <<>>]
                ELSE [panic |-> FALSE, items |-> one.items \o rest.items]
         IN  With(<< fetchEntry(Head(entries), filter, titleField, imageField, linkField, dateField, clock),
                     fetchLoop(Tail(entries), filter, titleField, imageField, linkField, dateField, clock) >>,
                  LAMBDA x : join(x[1], x[2]))

\* rssFetcher.Fetch on what ParseURLWithContext gave: an error, or the entries
Fetch(feed, filter, titleField, imageField, linkField, dateField, clock) ==
    IF ~feed.ok THEN [err |-> TRUE, panic |-> FALSE, items |-> <<>>]
    ELSE [err |-> FALSE] @@ fetchLoop(feed.Items, filter, titleField, imageField, linkField, dateField, clock)

(***************************************************************************)
(* Pattern detection.  Each probe fetches the URL again; failing holds the  *)
(* patterns whose fetch ends in an error.                                   *)
(***************************************************************************)
validItems(items, withImage) ==
    Cardinality({i \in 1..Len(items) :
        /\ items[i].Title # <<>>
        /\ items[i].Link # <<>>
        /\ withImage => items[i].Image # <<>>
        /\ Len(items[i].Title) > 10})

Probe(entries, failing, clock, pattern) ==
    Fetch([ok |-> pattern \notin failing, Items |-> entries], pattern, <<>>, <<>>, <<>>, <<>>, clock)

Detected(pattern) == [pattern |-> pattern, err |-> FALSE, panic |-> FALSE]
NotDetected == [pattern |-> <<>>, err |-> TRUE, panic |-> FALSE]
DetectPanicked == [pattern |-> <<>>, err |-> FALSE, panic |-> TRUE]

RECURSIVE testPatternsWithImageLenient(_, _, _, _)
\* the first phase content with one valid item
testPatternsWithImageLenient(entries, failing, clock, patterns) ==
    IF patterns = <<>> THEN NotDetected
    ELSE LET test(r) ==
                IF r.panic THEN DetectPanicked
                ELSE IF ~r.err /\ Len(r.items) > 0 /\ validItems(r.items, TRUE) >= 1
                THEN Detected(Head(patterns))
                ELSE testPatternsWithImageLenient(entries, failing, clock, Tail(patterns))
         IN  With(Probe(entries, failing, clock, Head(patterns)), test)

RECURSIVE testPatternsWithImage(_, _, _, _)
\* Handler.testPatternsWithImage
testPatternsWithImage(entries, failing, clock, patterns) ==
    IF patterns = <<>> THEN NotDetected
    ELSE LET test(r) ==
                IF r.panic THEN DetectPanicked
                ELSE IF ~r.err /\ Len(r.items) > 0 /\ validItems(r.items, TRUE) >= 2
                THEN Detected(Head(patterns))
                ELSE testPatternsWithImage(entries, failing, clock, Tail(patterns))
         IN  With(Probe(entries, failing, clock, Head(patterns)), test)

RECURSIVE testPatternsWithoutImage(_, _, _, _)
\* Handler.testPatternsWithoutImage
testPatternsWithoutImage(entries, failing, clock, patterns) ==
    IF patterns = <<>> THEN NotDetected
    ELSE LET test(r) ==
                IF r.panic THEN DetectPanicked
                ELSE IF ~r.err /\ Len(r.items) > 0 /\ validItems(r.items, FALSE) >= 2
                THEN Detected(Head(patterns))
                ELSE testPatternsWithoutImage(entries, failing, clock, Tail(patterns))
         IN  With(Probe(entries, failing, clock, Head(patterns)), test)

patternsWithImage == <<Patron1, Patron2, Patron3>>
patternsWithoutImage == <<Patron1NoImage, Patron2NoImage, Patron3NoImage>>

\* Handler.detectBestPattern
detectBestPattern(entries, failing, clock) ==
    LET phase2(second) ==
            IF second.panic THEN DetectPanicked
            ELSE IF ~second.err /\ second.pattern # <<>> THEN second
            ELSE NotDetected
        phase1(first) ==
            IF first.panic THEN DetectPanicked
            ELSE IF ~first.err /\ first.pattern # <<>> THEN first
            ELSE With(testPatternsWithoutImage(entries, failing, clock, patternsWithoutImage),
                      phase2)
    IN  With(testPatternsWithImage(entries, failing, clock, patternsWithImage), phase1)

(***************************************************************************)
(* The helpers called one at a time, each on the inputs below.              *)
(***************************************************************************)
MaxChunks == 6      \* pieces a description is put together from

RECURSIVE Concat(_)
Concat(pieces) == IF pieces = <<>> THEN <<>> ELSE Head(pieces) \o Concat(Tail(pieces))

\* the pieces of a description: the tag opening, src=, the tag end, the two
\* quotes and a letter
Chunks == {ImgOpen, SrcEq, <<">">>, <<"\"">>, <<"'">>, <<"u">>}

UrlE == <<"http://e/", "1.png">>
UrlE2 == <<"http://e/", "2.png">>
UrlM == <<"http://m/", "1.png">>
UrlT == <<"http://t/", "1.png">>
UrlA == <<"http://a/", "1.mp3">>
ImageType == <<"image/", "png">>
AudioType == <<"audio/", "mpeg">>

\* <img src="u">
GoodDesc == ImgOpen \o SrcEq \o <<"\"", "u", "\"", ">">>

EnclosureLists ==
    { <<>>,
      <<Enclosure(UrlE, ImageType)>>,
      <<Enclosure(<<>>, ImageType)>>,
      <<Enclosure(UrlA, AudioType)>>,
      <<Enclosure(UrlA, AudioType), Enclosure(UrlE, ImageType)>>,
      <<Enclosure(UrlE, ImageType), Enclosure(UrlE2, ImageType)>> }

MediaLists == { <<>>, <<[url |-> UrlM]>>, <<[url |-> <<>>]>>, <<[medium |-> <<"image">>]>> }

ExtractItems ==
    { Item(t, l, d, e, c, th, p, u) :
        t \in {<<>>, <<"t">>}, l \in {<<>>, <<"l1">>}, d \in {<<>>, GoodDesc},
        e \in EnclosureLists, c \in MediaLists, th \in {<<>>, <<[url |-> UrlT]>>},
        p \in {<<>>, <<Time(1, 5)>>}, u \in {<<>>, <<Time(2, 0)>>} }

FieldSpecs ==
    { <<>>, <<"title">>, <<"link">>, <<"pubDate">>, <<"enclosure">>, <<"media:content">>,
      <<"media:thumbnail">>, <<"description_img">>, <<"bogus">>,
      <<"media:content", "|", "media:thumbnail">>,
      <<"enclosure", "|", "media:content">>,
      <<" ", "enclosure", " ", "|", " ", "description_img", " ">>,
      <<"bogus", "|", "title">>,
      <<"|", "link">> }

ExtractCall ==
    /\ calc.op = "none"
    /\ \E item \in ExtractItems, field \in FieldSpecs :
          calc' = [op |-> "extract", in |-> [item |-> item, field |-> field],
                   out |-> extractFieldFromItem(item, field)]
    /\ UNCHANGED <<sources, feeds, fallbacks, files, filters, store, now, run, last, runLog, faults,
                   parked, inflight, serial>>

ImgCall ==
    /\ calc.op = "none"
    /\ \E n \in 0..MaxChunks :
          \E pieces \in [1..n -> Chunks] :
              calc' = [op |-> "img", in |-> Concat(pieces),
                       out |-> extractImgFromDescription(Concat(pieces))]
    /\ UNCHANGED <<sources, feeds, fallbacks, files, filters, store, now, run, last, runLog, faults,
                   parked, inflight, serial>>

\* entries with a title and a link, dated or not; the title "2s" reads as a time
DatedItems ==
    { Item(t, <<"l1">>, <<>>, <<>>, <<>>, <<>>, p, u) :
        t \in {<<"t">>, <<"2s">>}, p \in {<<>>, <<Time(1, 5)>>}, u \in {<<>>, <<Time(3, 0)>>} }

DateFields == { <<>>, <<"pubDate">>, <<"title">>, <<"link">>, <<"updated">> }

WallClock == Time(4, 0)

FetchCall ==
    /\ calc.op = "none"
    /\ \E item \in DatedItems, filter \in {Patron1, Patron3NoImage, <<"bogus">>},
          titleField \in {<<>>, <<"title">>}, linkField \in {<<>>, <<"link">>},
          dateField \in DateFields, ok \in BOOLEAN :
          calc' = [op |-> "fetch",
                   in |-> [feed |-> [ok |-> ok, Items |-> <<item>>], filter |-> filter,
                           titleField |-> titleField, linkField |-> linkField,
                           dateField |-> dateField, clock |-> WallClock],
                   out |-> Fetch([ok |-> ok, Items |-> <<item>>], filter, titleField, <<>>,
                                 linkField, dateField, WallClock)]
    /\ UNCHANGED <<sources, feeds, fallbacks, files, filters, store, now, run, last, runLog, faults,
                   parked, inflight, serial>>

Title11 == <<"a", "b", "c", "d", "e", "f", "g", "h", "i", "j", "k">>
Title10 == <<"a", "b", "c", "d", "e", "f", "g", "h", "i", "j">>

\* entries a probed feed is made of: with an image where patron1, patron2 or
\* patron3 looks for it, with none, with a short title, with no link
ProbedItems ==
    { Item(Title11, <<"l1">>, <<>>, <<>>, <<[url |-> UrlM]>>, <<>>, <<>>, <<>>),
      Item(Title11, <<"l2">>, <<>>, <<Enclosure(UrlE, ImageType)>>, <<>>, <<>>, <<>>, <<>>),
      Item(Title11, <<"l3">>, GoodDesc, <<>>, <<>>, <<>>, <<>>, <<>>),
      Item(Title11, <<"l4">>, <<>>, <<>>, <<>>, <<>>, <<>>, <<>>),
      Item(Title10, <<"l5">>, <<>>, <<>>, <<[url |-> UrlM]>>, <<>>, <<>>, <<>>),
      Item(Title11, <<>>, <<>>, <<>>, <<[url |-> UrlM]>>, <<>>, <<>>, <<>>) }

ProbedFeeds == [1..2 -> ProbedItems] \cup [1..3 -> ProbedItems]

DetectCall ==
    /\ calc.op = "none"
    /\ \E entries \in ProbedFeeds, failing \in SUBSET {Patron1, Patron2, Patron3, Patron1NoImage, Patron2NoImage} :
          calc' = [op |-> "detect", in |-> [entries |-> entries, failing |-> failing],
                   out |-> detectBestPattern(entries, failing, WallClock)]
    /\ UNCHANGED <<sources, feeds, fallbacks, files, filters, store, now, run, last, runLog, faults,
                   parked, inflight, serial>>

Responses ==
    { Response(net, status, mime, decodes, w, h) :
        net \in BOOLEAN, status \in {200, 404},
        mime \in {"image/jpeg", "image/png", "image/webp", "image/gif", "image/svg+xml", "text/html"},
        decodes \in BOOLEAN, w \in {399, 400, 800, 1000}, h \in {224, 225, 450, 600} }

ValidateCall ==
    /\ calc.op = "none"
    /\ \E r \in Responses :
          calc' = [op |-> "validate", in |-> r, out |-> validateResponse(r)]
    /\ UNCHANGED <<sources, feeds, fallbacks, files, filters, store, now, run, last, runLog, faults,
                   parked, inflight, serial>>

\* a configured number: none, an int, a float
Numbers(i, f) == { <<>>, <<IntV(i)>>, <<FloatV(f)>> }

Keyed(k, v) == IF v = <<>> THEN <<>> ELSE k :> v[1]

\* the maps a config file gives for newsCount, maxPerSource or maxDays: es is
\* missing, a number, or a map with or without sports and default
NestedMaps ==
    { l @@ Keyed(DefaultKey, g) :
        l \in { <<>>, LangEs :> IntV(8) }
              \cup { LangEs :> MapV(Keyed(CatSports, c) @@ Keyed(DefaultKey, d)) :
                        c \in Numbers(1, 2), d \in Numbers(3, 4) },
        g \in Numbers(5, 6) }

ConfigCall ==
    /\ calc.op = "none"
    /\ \E m \in NestedMaps, cat \in {CatSports, CatTech}, lang \in {LangEs, <<"e", "n">>} :
          calc' = [op |-> "config", in |-> [m |-> m, lang |-> lang, cat |-> cat],
                   out |-> [newsCount |-> newsCountFrom(m, lang, cat),
                            maxPerSource |-> getIntValueFromNestedMap(m, lang, cat, 7),
                            maxDays |-> getIntValueFromNestedMap(m, lang, cat, 5)]]
    /\ UNCHANGED <<sources, feeds, fallbacks, files, filters, store, now, run, last, runLog, faults,
                   parked, inflight, serial>>

InitCalls ==
    /\ sources = SourcesA
    /\ feeds = ("u1" :> U1Two) @@ ("u2" :> U2Two)
    /\ fallbacks = FallbackOk.table
    /\ files = FallbackOk.files
    /\ filters = FiltersMin2
    /\ store = <<>>
    /\ now = 0
    /\ run = IdleRun
    /\ last = NoLast
    /\ runLog = <<>>
    /\ faults = 0
    /\ calc = NoCalc
    /\ parked = NoneParked
    /\ inflight = {}
    /\ serial = Counters(sources, fallbacks)

NextCalls ==
    \/ ExtractCall
    \/ ImgCall
    \/ FetchCall
    \/ DetectCall
    \/ ValidateCall
    \/ ConfigCall

SpecCalls == InitCalls /\ [][NextCalls]_vars

(***************************************************************************)
(* Deleting a source by request.                                           *)
(***************************************************************************)
\* a news_sources row with its link to a fallback image: <<>> is nil
SourceWithFallback(id, name, cat, fallbackImageID) ==
    [ID |-> id, SourceName |-> name, RSSURL |-> "u1", Filter |-> Patron1,
     Cat |-> cat, Lang |-> LangEs, IsActive |-> TRUE, FallbackImageID |-> fallbackImageID]

\* a directory whose first and third source are linked to a fallback image
SourcesLinked ==
    << SourceWithFallback(1, "n1", CatSports, <<1>>),
       SourceWithFallback(2, "n2", CatSports, <<>>),
       SourceWithFallback(3, "n3", CatTech, <<2>>) >>

\* rows the store may hold: two of source 1, one of source 2, one of source 3
StoredItems ==
    << NewsItem(<<"a", "b">>, [Link |-> "l1", PubDate |-> -1], ImgOk, CatSports, LangEs, 1, 0),
       NewsItem(<<"b", "c">>, [Link |-> "l2", PubDate |-> -1], ImgOk, CatSports, LangEs, 1, 0),
       NewsItem(<<"c", "d">>, [Link |-> "l3", PubDate |-> -1], ImgOk, CatSports, LangEs, 2, 0),
       NewsItem(<<"d", "e">>, [Link |-> "l4", PubDate |-> -1], ImgOk, CatTech, LangEs, 3, 0) >>

RECURSIVE Pick(_, _, _)
\* the rows of a table at the positions of a set, in order
Pick(rows, positions, i) ==
    IF i > Len(rows) THEN <<>>
    ELSE (IF i \in positions THEN <<rows[i]>> ELSE <<>>) \o Pick(rows, positions, i + 1)

\* fallbackImageRepository.GetByID: the row, or <<>> with the error of First
GetByID(table, id) ==
    IF \E i \in 1..Len(table) : table[i].ID = id
    THEN <<table[CHOOSE i \in 1..Len(table) : table[i].ID = id]>>
    ELSE <<>>

\* the rows left by DELETE ... WHERE id = ?
DeleteByID(table, id) == SelectSeq(table, LAMBDA row : row.ID # id)

\* the rows left by DELETE ... WHERE source_id = ?
DeleteBySource(rows, id) == SelectSeq(rows, LAMBDA row : row.SourceID # id)

\* the ids a request names: the three sources and one that does not exist
DeleteIds == {1, 2, 3, 7}

\* the call that fails in a request, if any
DeleteFaults == {"none", "FindByID", "DeleteNews", "DeleteSource", "GetByID", "Remove", "DeleteByID"}

Answer(id, source, failed, status) ==
    [op |-> "delete", id |-> id, source |-> source, failed |-> failed, status |-> status]

\* Handler.DeleteSourceHandler with newsSourceRepository.Delete
DeleteSourceHandler ==
    /\ \E parses \in BOOLEAN, id \in DeleteIds, fault \in DeleteFaults :
           LET source == FindByID(sources, id)
               linked == source # <<>> /\ source[1].FallbackImageID # <<>>
               fallbackImage == IF linked /\ fault # "GetByID"
                                THEN GetByID(fallbacks, source[1].FallbackImageID[1])
                                ELSE <<>>
           IN  IF ~parses
               THEN /\ calc' = Answer(id, <<>>, fault, 400)
                    /\ UNCHANGED <<sources, store, fallbacks, files>>
               ELSE IF fault = "FindByID"
               THEN /\ calc' = Answer(id, <<>>, fault, 500)
                    /\ UNCHANGED <<sources, store, fallbacks, files>>
               ELSE IF source = <<>>
               THEN /\ calc' = Answer(id, <<>>, fault, 404)
                    /\ UNCHANGED <<sources, store, fallbacks, files>>
               ELSE IF fault = "DeleteNews"
               THEN /\ calc' = Answer(id, source, fault, 500)
                    /\ UNCHANGED <<sources, store, fallbacks, files>>
               ELSE IF fault = "DeleteSource"
               THEN /\ calc' = Answer(id, source, fault, 500)
                    /\ store' = DeleteBySource(store, id)
                    /\ UNCHANGED <<sources, fallbacks, files>>
               ELSE /\ calc' = Answer(id, source, fault, 200)
                    /\ store' = DeleteBySource(store, id)
                    /\ sources' = DeleteByID(sources, id)
                    /\ IF fallbackImage # <<>>
                       THEN /\ files' = IF fault = "Remove" THEN files
                                        ELSE files \ {fallbackImage[1].Filename}
                            /\ fallbacks' = IF fault = "DeleteByID" THEN fallbacks
                                            ELSE DeleteByID(fallbacks, fallbackImage[1].ID)
                       ELSE UNCHANGED <<fallbacks, files>>
    /\ UNCHANGED <<feeds, filters, now, run, last, runLog, faults, parked, inflight, serial>>

\* an installation with linked sources, with or without the linked records and
\* files, and with any of the stored rows
InitDelete ==
    /\ sources = SourcesLinked
    /\ feeds = ("u1" :> U1Two) @@ ("u2" :> U2Two)
    /\ fallbacks \in {<<Fallback1, Fallback2>>, <<Fallback2>>}
    /\ files \in SUBSET {"f1.png", "f2.png"}
    /\ filters = FiltersMin2
    /\ store \in {Pick(StoredItems, positions, 1) : positions \in SUBSET (1..4)}
    /\ now = 0
    /\ run = IdleRun
    /\ last = NoLast
    /\ runLog = <<>>
    /\ faults = 0
    /\ calc = NoCalc
    /\ parked = NoneParked
    /\ inflight = {}
    /\ serial = Counters(sources, fallbacks)

NextDelete == DeleteSourceHandler

SpecDelete == InitDelete /\ [][NextDelete]_vars

(***************************************************************************)
(* Properties of the helpers.                                              *)
(***************************************************************************)
\* the probe of a pattern on the feed of the latest detection passes
Passes(pattern, withImage) ==
    \E r \in {Probe(calc.in.entries, calc.in.failing, WallClock, pattern)} :
        ~r.err /\ ~r.panic /\ validItems(r.items, withImage) >= 2

FirstPassing(patterns, withImage) ==
    IF \E i \in 1..Len(patterns) : Passes(patterns[i], withImage)
    THEN CHOOSE i \in 1..Len(patterns) :
            /\ Passes(patterns[i], withImage)
            /\ \A j \in 1..(i - 1) : ~Passes(patterns[j], withImage)
    ELSE 0

\* C12: detect returns the first of patron1, patron2, patron3 whose fetch yields
\* at least 2 candidates with a title longer than 10 characters, a link and an
\* image; when none of them passes, the first of the three no-image patterns
\* whose fetch yields at least 2 candidates with such a title and a link; and an
\* error when none of the six passes.
C12_DetectOrder ==
    calc.op = "detect" =>
        \E i \in {FirstPassing(<<Patron1, Patron2, Patron3>>, TRUE)},
           j \in {FirstPassing(<<Patron1NoImage, Patron2NoImage, Patron3NoImage>>, FALSE)} :
            IF i # 0 THEN calc.out = Detected(<<Patron1, Patron2, Patron3>>[i])
            ELSE IF j # 0
            THEN calc.out = Detected(<<Patron1NoImage, Patron2NoImage, Patron3NoImage>>[j])
            ELSE calc.out.err /\ calc.out.pattern = <<>>

\* a no-image pattern was returned for a feed on which an image-bearing pattern
\* found one valid candidate, one short of the threshold
C12_Witness ==
    /\ calc.op = "detect"
    /\ calc.out = Detected(Patron1NoImage)
    /\ \E p \in {Patron1, Patron2, Patron3} :
          \E r \in {Probe(calc.in.entries, calc.in.failing, WallClock, p)} :
              ~r.err /\ validItems(r.items, TRUE) = 1

\* C13: extract returns the value of the leftmost alternative of the field
\* specification that yields a non-empty value, and the empty string when no
\* alternative yields one.
C13_FirstNonEmpty ==
    calc.op = "extract" =>
        \E alts \in {Split(calc.in.field, "|")} :
            \E yields \in {[i \in 1..Len(alts) |->
                              extractFieldFromItem(calc.in.item, alts[i]).value]} :
                \E hits \in {{i \in 1..Len(alts) : yields[i] # <<>>}} :
                    /\ ~calc.out.panic
                    /\ calc.out.value =
                          IF hits = {} THEN <<>>
                          ELSE yields[CHOOSE i \in hits : \A j \in hits : i <= j]

\* the first <img tag of the description up to its ">", <<>> when there is none
FirstImgTag(desc) ==
    IF ~Contains(desc, ImgOpen) THEN <<>>
    ELSE LET from == SubSeq(desc, IndexSeq(desc, ImgOpen), Len(desc))
         IN  IF IndexOf(from, ">") = 0 THEN <<>>
             ELSE SubSeq(from, 1, IndexOf(from, ">") - 1)

\* the tag has no src=, or nothing after it, or a quote after it that the tag
\* does not close
Malformed(tag) ==
    /\ tag # <<>>
    /\ \/ ~Contains(tag, SrcEq)
       \/ IndexSeq(tag, SrcEq) + 4 > Len(tag)
       \/ /\ tag[IndexSeq(tag, SrcEq) + 4] \in {"\"", "'"}
          /\ \A k \in (IndexSeq(tag, SrcEq) + 5)..Len(tag) :
                tag[k] # tag[IndexSeq(tag, SrcEq) + 4]

\* C14: the description_img extraction never panics, and it returns the empty
\* string when the first <img tag has no src=, nothing after src=, or an
\* unclosed quote after src=.
C14_ImgNeverPanics ==
    calc.op = "img" =>
        /\ ~calc.out.panic
        /\ Malformed(FirstImgTag(calc.in)) => calc.out.value = <<>>

\* C15: the publish date of a candidate is the date field's value when it parses
\* as RFC 3339, whether the field is an override or the pattern's; else the
\* entry's parsed publish time, else its parsed update time, else the clock.
C15_DateChain ==
    (calc.op = "fetch" /\ calc.out.items # <<>>) =>
        \E item \in {calc.in.feed.Items[1]} :
            \E parsed \in {ParseRFC3339(extractFieldFromItem(item,
                              IF calc.in.dateField # <<>> THEN calc.in.dateField
                              ELSE extractionPatterns(calc.in.filter).DateField).value)} :
                calc.out.items[1].PubDate =
                    IF parsed.ok THEN parsed.t
                    ELSE IF item.PublishedParsed # <<>> THEN item.PublishedParsed[1]
                    ELSE IF item.UpdatedParsed # <<>> THEN item.UpdatedParsed[1]
                    ELSE calc.in.clock

HardFailure(r) ==
    \/ ~r.net
    \/ r.status # 200
    \/ r.mime \notin {"image/jpeg", "image/png", "image/webp", "image/gif"}
    \/ ~r.decodes

SoftRejection(r) ==
    \/ r.w < 400
    \/ r.h < 225
    \/ r.w * 9 * 100 < r.h * 16 * (100 - TolerancePct)
    \/ r.w * 9 * 100 > r.h * 16 * (100 + TolerancePct)

\* C16: validate returns an error and false for a failed download, a status other
\* than 200, a type outside jpeg, png, webp, gif or an undecodable body; false
\* and no error for a decoded image under 400x225 or outside the aspect band; and
\* true exactly when none of these holds.
C16_HardAndSoft ==
    calc.op = "validate" =>
        /\ HardFailure(calc.in) => calc.out = [valid |-> FALSE, err |-> TRUE]
        /\ (~HardFailure(calc.in) /\ SoftRejection(calc.in)) =>
              calc.out = [valid |-> FALSE, err |-> FALSE]
        /\ calc.out.valid <=> (~HardFailure(calc.in) /\ ~SoftRejection(calc.in))

\* a decodable jpeg one pixel too narrow was refused without an error
C16_Witness ==
    /\ calc.op = "validate"
    /\ ~HardFailure(calc.in)
    /\ calc.in.w = 399
    /\ calc.in.h = 225
    /\ calc.out = [valid |-> FALSE, err |-> FALSE]

\* the value the chain lang.category, lang.default, default gives, or builtin
Chain(m, lang, cat, builtin) ==
    LET l == IF Has(m, lang) /\ m[lang].t = "map" THEN m[lang].m ELSE <<>>
    IN  IF Has(l, cat) THEN l[cat].v
        ELSE IF Has(l, DefaultKey) THEN l[DefaultKey].v
        ELSE IF Has(m, DefaultKey) THEN m[DefaultKey].v
        ELSE builtin

\* C17: newsCount, maxPerSource and maxDays are each the value configured for
\* lang.category if present, else for lang.default, else the global default, else
\* 10, 7 and 5.
C17_SameChain ==
    calc.op = "config" =>
        /\ calc.out.newsCount = Chain(calc.in.m, calc.in.lang, calc.in.cat, 10)
        /\ calc.out.maxPerSource = Chain(calc.in.m, calc.in.lang, calc.in.cat, 7)
        /\ calc.out.maxDays = Chain(calc.in.m, calc.in.lang, calc.in.cat, 5)

\* C20: the enclosure field is the URL of the first enclosure whose type starts
\* with image/, wherever it stands in the entry's list, and empty when the entry
\* has no such enclosure.
C20_FirstImageEnclosure ==
    (calc.op = "extract" /\ calc.in.field = <<"enclosure">>) =>
        \E e \in {calc.in.item.Enclosures} :
            \E images \in {{i \in 1..Len(e) : HasPrefix(e[i].Type, <<"image/">>)}} :
                calc.out.value =
                    IF images = {} THEN <<>>
                    ELSE e[CHOOSE i \in images : \A j \in images : i <= j].URL

\* C19: when a delete request is answered with success, the source is gone,
\* the store holds no item of that source, and the fallback image record the
\* source was linked to is gone.
C19_DeleteCascades ==
    (calc.op = "delete" /\ calc.status = 200) =>
        /\ FindByID(sources, calc.id) = <<>>
        /\ \A k \in 1..Len(store) : store[k].SourceID # calc.id
        /\ calc.source[1].FallbackImageID # <<>> =>
              \A k \in 1..Len(fallbacks) :
                  fallbacks[k].ID # calc.source[1].FallbackImageID[1]

(***************************************************************************)
(* Properties of the quotas, of a failed insert and of the image step.     *)
(***************************************************************************)
\* the loop over the items of the current source ends on the source cap: the
\* group has room, a candidate is left, the counter of the source is at its cap
QuotaBreak ==
    /\ run.mode = "full"
    /\ run.pc = "item"
    /\ run.feedItems # <<>>
    /\ Len(run.noticias) < run.tope
    /\ Count(run.sourceCounts, CurrentSource.SourceName) >= run.maxPerSource

\* C21: in a full run the candidates of a source stop being processed on account
\* of the per-source quota only when the items admitted from that same source in
\* this run have reached maxPerSource; the items of another source of the group
\* never use up its quota.
C21_OwnQuota ==
    QuotaBreak => Cardinality(FromSource(run.noticias, run.src)) >= run.maxPerSource

\* the items of the run so far that came from a source of the given name
NamedItems(items, name) ==
    {i \in 1..Len(items) : FindByID(sources, items[i].SourceID)[1].SourceName = name}

\* the counters and the seen sets agree with the items the run has inserted
CountersMatch ==
    /\ run.mode = "full" =>
          \A k \in 1..Len(sources) :
              Count(run.sourceCounts, sources[k].SourceName) =
                  Cardinality(NamedItems(run.noticias, sources[k].SourceName))
    /\ run.mode = "single" => run.extractedCount = Len(run.noticias)
    /\ run.linksVistos = {run.noticias[i].Link : i \in 1..Len(run.noticias)}
    /\ run.titulosVistos = {run.noticias[i].Title : i \in 1..Len(run.noticias)}
    /\ \A i \in 1..Len(run.noticias) : \E k \in 1..Len(store) : store[k] = run.noticias[i]

\* a step that handles one candidate without ending the loop
CandidateStep ==
    /\ run.pc \in {"item", "sitem"}
    /\ run'.pc = run.pc
    /\ run'.feedItems # run.feedItems

\* C22: when the insert of a candidate that passed every check fails, the
\* candidate is not counted against the group cap or the source cap, its link and
\* cleaned title are not recorded as seen and the run goes on with the next
\* candidate: the counters count exactly the items inserted in this run.
C22_FailedInsertUncounted ==
    /\ []CountersMatch
    /\ [][CandidateStep =>
            /\ run'.feedItems = Tail(run.feedItems)
            /\ Len(run'.noticias) - Len(run.noticias) = Len(store') - Len(store)
            /\ store' = store =>
                  /\ run'.noticias = run.noticias
                  /\ run'.linksVistos = run.linksVistos
                  /\ run'.titulosVistos = run.titulosVistos
                  /\ run'.sourceCounts = run.sourceCounts
                  /\ run'.extractedCount = run.extractedCount]_vars

\* an insert failed in a full run and the next candidate of the feed is taken up
C22_Witness ==
    /\ Handled
    /\ last.reason = "create_error"
    /\ run.pc = "item"
    /\ run.feedItems # <<>>
    /\ ~LoopBreaks(run.noticias, run.tope, run.sourceCounts,
                   CurrentSource.SourceName, run.maxPerSource)

\* a step of a full run that fetches a feed of the current group
FetchesFeed == run'.attempted # run.attempted

\* a step of a full run that puts an image of the current group to its qualifier
QualifiesImage == last' # last /\ last'.reason # "none" /\ last'.calls \cap Qualifiers # {}

\* C23: in a full run, once the items admitted for a group are at least the
\* newsCount of the group, no feed of the group is fetched and no image of the
\* group is validated for the rest of the run.
C23_FullGroupIsLeftAlone ==
    [][(/\ run.mode = "full"
        /\ run.pc \in {"fetch", "item"}
        /\ Len(run.noticias) >= run.tope) => (~FetchesFeed /\ ~QualifiesImage)]_vars

\* C26: an admitted item whose image URL came from the feed, not from the
\* fallback lookup, passed ValidateImage with the result true; the network
\* validation is skipped only for an image the fallback lookup resolved, for which
\* the existence of the file on disk is all that is checked.
C26_FeedImagesValidated ==
    /\ (Handled /\ last.reason = "admitted" /\ last.item.Image # NoImage) =>
          /\ "ValidateImage" \in last.calls
          /\ ValidateImage(last.image).valid
    /\ (Handled /\ "Stat" \in last.calls) =>
          /\ "getFallbackImage" \in last.calls
          /\ "ValidateImage" \notin last.calls

RepeatedLink(rows) ==
    \E a, b \in 1..Len(rows) :
        /\ a # b
        /\ rows[a].CategoryCode = rows[b].CategoryCode
        /\ rows[a].LangCode = rows[b].LangCode
        /\ rows[a].Link = rows[b].Link

(***************************************************************************)
(* Two invocations of Execute at once.  The cron job runs each firing in a  *)
(* goroutine of its own and RefreshNewsHandler runs Execute in the          *)
(* goroutine of its request; nothing serialises them.  One invocation takes *)
(* its steps as run while the other waits as parked.  The switches explored *)
(* are those between two invocations and those right after the purge of the *)
(* running one, so that each row is inserted after the last purge.          *)
(***************************************************************************)
Switch ==
    /\ run.pc \in {"idle", "list"}
    /\ run' = parked.run
    /\ parked' = [run |-> run,
                  overlap |-> parked.overlap \/ (run.pc # "idle" /\ parked.run.pc # "idle")]
    /\ UNCHANGED <<sources, feeds, fallbacks, files, filters, store, now, last, runLog,
                   faults, calc, inflight, serial>>

\* the installations two runs at once are explored on
WorldsOverlap ==
    { World(SourcesB, U1Two,   U2Repeats, FallbackOk, FiltersMin2),
      World(SourcesA, U1Stale, U2Two,     FallbackOk, FiltersMin2) }

InitOverlap == Init /\ \E w \in WorldsOverlap : sources = w.sources /\ feeds = w.feeds

NextOverlap ==
    \/ Switch
    \/ Tick
    \/ StartFull
    \/ CleanOldNews
    \/ ListSources
    \/ NextGroup
    \/ FullDone
    \/ FetchSource
    \/ GroupDone
    \/ Candidate
    \/ SourceDone

SpecOverlap == InitOverlap /\ [][NextOverlap]_vars

\* the rows of news_items of one category and language
GroupRows(rows, cat, lang) ==
    {k \in 1..Len(rows) : rows[k].CategoryCode = cat /\ rows[k].LangCode = lang}

\* two full runs overlapped and both are over
BothFinished ==
    /\ parked.overlap
    /\ run.pc = "idle"
    /\ parked.run.pc = "idle"
    /\ Len(runLog) = 2
    /\ \A i \in 1..2 : runLog[i].mode = "full"

\* C28: when two full runs overlap in time, once both have finished the store
\* holds at most newsCount items of every category and language.
C28_OverlapKeepsCap ==
    BothFinished =>
        \A i \in 1..Len(sources) :
            Cardinality(GroupRows(store, sources[i].Cat, sources[i].Lang))
                <= getNewsCount(sources[i].Lang, sources[i].Cat)

(***************************************************************************)
(* The administration requests: adding and deleting sources, uploading,    *)
(* replacing and deleting fallback images.  A request for a new source is   *)
(* handled in two steps, its checks and its insert, and the requests of     *)
(* other clients may be served between the two.                             *)
(***************************************************************************)
MaxSources == 3     \* rows template_news_sources is given in all
MaxImages == 1      \* rows fallback_images is given in all

\* a row of template_news_sources with the columns the requests use
SourceRow(id, name, url, filter, cat, lang, userAdded, fallbackImageID) ==
    [ID |-> id, SourceName |-> name, RSSURL |-> url, Filter |-> filter,
     Cat |-> cat, Lang |-> lang, IsActive |-> TRUE,
     UserAdded |-> userAdded, FallbackImageID |-> fallbackImageID]

\* newsSourceRepository.ExistsByURLCategoryLang
ExistsByURLCategoryLang(table, rssURL, cat, lang) ==
    \E i \in 1..Len(table) :
        table[i].RSSURL = rssURL /\ table[i].Cat = cat /\ table[i].Lang = lang

\* a second feed of the publisher of u1: its first entry is the article l1
U2Shared == << Entry(<<"d", "e">>, "l1", ImgOk, -1),
               Entry(<<"e", "f">>, "l9", ImgOk, -1) >>

\* the documents as gofeed hands them to the probes of detectBestPattern: u1 and
\* u2 carry their pictures in media:content, u3 has no usable entry
Probes ==
    ("u1" :> << Item(Title11, <<"l1">>, <<>>, <<>>, <<[url |-> UrlM]>>, <<>>, <<>>, <<>>),
                Item(Title11, <<"l4">>, <<>>, <<>>, <<[url |-> UrlM]>>, <<>>, <<>>, <<>>) >>)
    @@ ("u2" :> << Item(Title11, <<"l1">>, <<>>, <<>>, <<[url |-> UrlM]>>, <<>>, <<>>, <<>>),
                   Item(Title11, <<"l9">>, <<>>, <<>>, <<[url |-> UrlM]>>, <<>>, <<>>, <<>>) >>)
    @@ ("u3" :> << Item(Title10, <<"l5">>, <<>>, <<>>, <<[url |-> UrlM]>>, <<>>, <<>>, <<>>),
                   Item(Title11, <<>>, <<>>, <<>>, <<[url |-> UrlM]>>, <<>>, <<>>, <<>>) >>)

\* Handler.detectBestPattern on each of them
Probed == [url \in DOMAIN Probes |-> detectBestPattern(Probes[url], {}, WallClock)]

\* the file name an upload is stored under
FileName(id) == IF id = 1 THEN "f1.png" ELSE IF id = 2 THEN "f2.png" ELSE "f3.png"

Reply(op, status) == [op |-> op, status |-> status]

RECURSIVE ForSourceLoop(_, _, _, _, _, _, _, _, _, _)
\* the loop of ExecuteForSource over feedItems: the rows of news_items after it
ForSourceLoop(source, feedItems, rows, linksVistos, titulosVistos, extractedCount, clock, flt, table, disk) ==
    IF feedItems = <<>> THEN rows
    ELSE IF extractedCount >= GetMaxPerSource(source.Lang, source.Cat) THEN rows
    ELSE LET item == Head(feedItems)
             tituloLimpio == cleanText(item.Title)
             next(v) ==
                 LET newsItem == NewsItem(tituloLimpio, item, v.image, source.Cat,
                                          source.Lang, source.ID, clock)
                 IN  IF v.reason = "pass" /\ ~CreateRefuses(newsItem)
                     THEN ForSourceLoop(source, Tail(feedItems), Append(rows, newsItem),
                                        linksVistos \cup {item.Link},
                                        titulosVistos \cup {tituloLimpio},
                                        extractedCount + 1, clock, flt, table, disk)
                     ELSE ForSourceLoop(source, Tail(feedItems), rows, linksVistos,
                                        titulosVistos, extractedCount, clock, flt, table, disk)
         IN  With(AdmissionForSource(item, source.Filter, source.Cat, source.Lang,
                                     GetMaxDays(source.Lang, source.Cat), linksVistos,
                                     titulosVistos, clock, flt, table, disk, FALSE), next)

\* FetchNewsUseCase.ExecuteForSource, from its fetch on
ExecuteForSource(source, rows, clock, flt, table, disk, docs) ==
    ForSourceLoop(source, FetchItems(docs[source.RSSURL], source.Filter), rows, {}, {}, 0,
                  clock, flt, table, disk)

AddUrls == {"u1", "u2", "u3"}
AddNames == {"n8", "n9"}

\* the fallback image a request for a new source names: none, or one uploaded before
Uploaded(images) == {<<>>} \cup {<<images[k].ID>> : k \in 1..Len(images)}

\* the checks that come first and the insert that follows them at once
AddSourceBeginCreatesFirst ==
    /\ serial.sources + Cardinality(inflight) < MaxSources
    /\ \E url \in AddUrls, name \in AddNames, image \in Uploaded(fallbacks),
          fault \in {"none", "Exists"} :
          LET req == [SourceName |-> name, RSSURL |-> url, Category |-> CatTech,
                      Language |-> LangEs, FallbackImageID |-> image]
              bestPattern == Probed[url]
              id == serial.sources + 1
          IN  IF fault = "Exists"
              THEN /\ calc' = Reply("add", 500)
                   /\ UNCHANGED <<inflight, sources, serial>>
              ELSE IF ExistsByURLCategoryLang(sources, url, CatTech, LangEs)
              THEN /\ calc' = Reply("add", 409)
                   /\ UNCHANGED <<inflight, sources, serial>>
              ELSE /\ sources' = Append(sources, SourceRow(id, name, url, Patron1, CatTech,
                                                           LangEs, TRUE, <<>>))
                   /\ serial' = [serial EXCEPT !.sources = id]
                   /\ IF bestPattern.err \/ bestPattern.panic
                      THEN calc' = Reply("add", 400)
                      ELSE calc' = Reply("add", 200)
                   /\ UNCHANGED inflight
    /\ UNCHANGED <<feeds, fallbacks, files, filters, store, now, run, last, runLog, faults,
                   parked>>

\* Handler.AddSourceHandler up to the detection of the pattern, lines 409-500
AddSourceBegin ==
    /\ serial.sources + Cardinality(inflight) < MaxSources
    /\ \E url \in AddUrls, name \in AddNames, image \in Uploaded(fallbacks),
          fault \in {"none", "Exists"} :
          LET req == [SourceName |-> name, RSSURL |-> url, Category |-> CatTech,
                      Language |-> LangEs, FallbackImageID |-> image]
              bestPattern == Probed[url]
          IN  IF fault = "Exists"
              THEN /\ calc' = Reply("add", 500)
                   /\ UNCHANGED inflight
              ELSE IF ExistsByURLCategoryLang(sources, url, CatTech, LangEs)
              THEN /\ calc' = Reply("add", 409)
                   /\ UNCHANGED inflight
              ELSE IF bestPattern.err \/ bestPattern.panic
              THEN /\ calc' = Reply("add", 400)
                   /\ UNCHANGED inflight
              ELSE /\ inflight' = inflight \cup {[req |-> req, pattern |-> bestPattern.pattern]}
                   /\ calc' = Reply("add", 0)
    /\ UNCHANGED <<sources, feeds, fallbacks, files, filters, store, now, run, last, runLog,
                   faults, parked, serial>>

\* Handler.AddSourceHandler from its insert on, lines 502-543
AddSourceFinish ==
    /\ \E r \in inflight, fault \in {"none", "Create", "Update", "Fetch"} :
          LET id == serial.sources + 1
              created == SourceRow(id, r.req.SourceName, r.req.RSSURL, r.pattern,
                                   r.req.Category, r.req.Language, TRUE, <<>>)
              newSource == IF r.req.FallbackImageID # <<>> /\ fault # "Update"
                           THEN [created EXCEPT !.FallbackImageID = r.req.FallbackImageID]
                           ELSE created
          IN  /\ inflight' = inflight \ {r}
              /\ IF fault = "Create"
                 THEN /\ calc' = Reply("add", 500)
                      /\ UNCHANGED <<sources, store, serial>>
                 ELSE /\ calc' = Reply("add", 200)
                      /\ sources' = Append(sources, newSource)
                      /\ serial' = [serial EXCEPT !.sources = id]
                      /\ store' = IF fault = "Fetch" THEN store
                                  ELSE ExecuteForSource(newSource, store, now, filters,
                                                        fallbacks, files, feeds)
    /\ UNCHANGED <<feeds, fallbacks, files, filters, now, run, last, runLog, faults, parked>>

\* Handler.UploadFallbackImageHandler
UploadFallbackImageHandler ==
    /\ serial.fallbacks < MaxImages
    /\ \E categoryCode \in {CatTech}, fault \in {"none", "Create"} :
          LET id == serial.fallbacks + 1
              fallbackImage == [ID |-> id, CategoryCode |-> categoryCode,
                                LanguageCode |-> LangEs, Filename |-> FileName(id)]
          IN  IF fault = "Create"
              THEN /\ calc' = Reply("upload", 500)
                   /\ UNCHANGED <<fallbacks, files, serial>>
              ELSE /\ calc' = Reply("upload", 200)
                   /\ fallbacks' = Append(fallbacks, fallbackImage)
                   /\ files' = files \cup {FileName(id)}
                   /\ serial' = [serial EXCEPT !.fallbacks = id]
    /\ UNCHANGED <<sources, feeds, filters, store, now, run, last, runLog, faults, parked,
                   inflight>>

\* the row of a source with another fallback image
Relinked(table, id, fallbackImageID) ==
    [i \in 1..Len(table) |->
        IF table[i].ID = id THEN [table[i] EXCEPT !.FallbackImageID = fallbackImageID]
        ELSE table[i]]

\* Handler.UpdateSourceFallbackImageHandler
UpdateSourceFallbackImageHandler ==
    /\ serial.fallbacks < MaxImages
    /\ \E id \in 1..MaxSources,
          fault \in {"none", "FindByID", "GetByID", "DeleteByID", "Create", "Update"} :
          LET source == IF fault = "FindByID" THEN <<>> ELSE FindByID(sources, id)
              newID == serial.fallbacks + 1
              filename == FileName(newID)
              oldImg == IF source # <<>> /\ source[1].FallbackImageID # <<>>
                           /\ fault # "GetByID"
                        THEN GetByID(fallbacks, source[1].FallbackImageID[1])
                        ELSE <<>>
              kept == IF oldImg # <<>> /\ fault # "DeleteByID"
                      THEN DeleteByID(fallbacks, oldImg[1].ID)
                      ELSE fallbacks
              disk == IF oldImg # <<>> THEN (files \cup {filename}) \ {oldImg[1].Filename}
                      ELSE files \cup {filename}
              newImg == [ID |-> newID, CategoryCode |-> source[1].Cat,
                         LanguageCode |-> source[1].Lang, Filename |-> filename]
          IN  IF source = <<>>
              THEN /\ calc' = Reply("relink", 404)
                   /\ UNCHANGED <<sources, fallbacks, files, serial>>
              ELSE IF ~source[1].UserAdded
              THEN /\ calc' = Reply("relink", 403)
                   /\ UNCHANGED <<sources, fallbacks, files, serial>>
              ELSE IF fault = "Create"
              THEN /\ calc' = Reply("relink", 500)
                   /\ fallbacks' = kept
                   /\ files' = disk
                   /\ UNCHANGED <<sources, serial>>
              ELSE /\ fallbacks' = Append(kept, newImg)
                   /\ files' = disk
                   /\ serial' = [serial EXCEPT !.fallbacks = newID]
                   /\ IF fault = "Update"
                      THEN /\ calc' = Reply("relink", 500)
                           /\ UNCHANGED sources
                      ELSE /\ calc' = Reply("relink", 200)
                           /\ sources' = Relinked(sources, id, <<newID>>)
    /\ UNCHANGED <<feeds, filters, store, now, run, last, runLog, faults, parked, inflight>>

\* fallbackImageRepository.Delete: the rows left by DELETE ... WHERE category_code = ?
\* AND language_code = ?
DeleteByCategoryAndLang(table, categoryCode, languageCode) ==
    SelectSeq(table, LAMBDA row :
        ~(row.CategoryCode = categoryCode /\ row.LanguageCode = languageCode))

\* Handler.DeleteFallbackImageHandler
DeleteFallbackImageHandler ==
    /\ \E categoryCode \in {CatTech}, fault \in {"none", "Get", "Delete"} :
          LET image == GetByCategoryAndLang(fallbacks, categoryCode, LangEs)
          IN  IF fault = "Get"
              THEN /\ calc' = Reply("unload", 500)
                   /\ UNCHANGED <<fallbacks, files>>
              ELSE IF image = <<>>
              THEN /\ calc' = Reply("unload", 404)
                   /\ UNCHANGED <<fallbacks, files>>
              ELSE IF fault = "Delete"
              THEN /\ calc' = Reply("unload", 500)
                   /\ UNCHANGED <<fallbacks, files>>
              ELSE /\ calc' = Reply("unload", 200)
                   /\ fallbacks' = DeleteByCategoryAndLang(fallbacks, categoryCode, LangEs)
                   /\ files' = files \ {image[1].Filename}
    /\ UNCHANGED <<sources, feeds, filters, store, now, run, last, runLog, faults, parked,
                   inflight, serial>>

\* the row a full run over the seeded source stores
SeededRows ==
    << NewsItem(<<"a", "b", "c">>, [Link |-> "l1", PubDate |-> -1], ImgOk, CatTech, LangEs,
                1, 0) >>

\* an installation with one seeded source, before or after its first full run
InitAdmin ==
    /\ sources = <<SourceRow(1, "n1", "u1", Patron1, CatTech, LangEs, FALSE, <<>>)>>
    /\ feeds = ("u1" :> U1Two) @@ ("u2" :> U2Shared) @@ ("u3" :> U2Blank)
    /\ fallbacks = <<>>
    /\ files = {}
    /\ filters = FiltersMin2
    /\ store \in {<<>>, SeededRows}
    /\ now = 0
    /\ run = IdleRun
    /\ last = NoLast
    /\ runLog = <<>>
    /\ faults = 0
    /\ calc = NoCalc
    /\ parked = NoneParked
    /\ inflight = {}
    /\ serial = Counters(sources, fallbacks)

NextAdmin ==
    \/ AddSourceBegin
    \/ AddSourceFinish
    \/ DeleteSourceHandler
    \/ UploadFallbackImageHandler
    \/ UpdateSourceFallbackImageHandler
    \/ DeleteFallbackImageHandler

SpecAdmin == InitAdmin /\ [][NextAdmin]_vars


(***************************************************************************)
(* Properties of the administration of sources and fallback images.        *)
(***************************************************************************)

\* the answers of AddSourceHandler that reject the request
Rejections == {Reply("add", 400), Reply("add", 409)}

\* C24: an add-source request that is rejected, because a source with its url,
\* category and language exists (409) or because no pattern matches its feed
\* (400), creates no source and runs no ingestion: the sources, the news items
\* and the requests under way are what they were before it.
C24_RejectedAddChangesNothing ==
    [][calc' \in Rejections =>
          /\ sources' = sources
          /\ store' = store
          /\ inflight' = inflight
          /\ serial' = serial]_vars

\* a request was rejected for its feed after another one was accepted and ingested
C24_Witness ==
    /\ calc = Reply("add", 400)
    /\ Len(sources) > 1
    /\ store # <<>>

\* two rows of news_sources with one url, category and language
RepeatedTriple(table) ==
    \E a, b \in 1..Len(table) :
        /\ a # b
        /\ table[a].RSSURL = table[b].RSSURL
        /\ table[a].Cat = table[b].Cat
        /\ table[a].Lang = table[b].Lang

\* C25: after any sequence of add-source requests, also of two requests for one
\* triple handled at once, no two sources have the same feed url, category and
\* language.
C25_TriplesAreUnique == ~RepeatedTriple(sources)

\* C27: after a full run followed by single-source runs, none overlapping
\* another, the store holds no two news items of one category and language with
\* the same link.
C27_NoRepeatedLinks == ~RepeatedLink(store)

\* C30: after any sequence of add-source, delete-source, upload, per-source
\* update and delete of fallback images, every source with a linked fallback
\* image id refers to a row of fallback_images that exists.
C30_LinkedImagesExist ==
    \A i \in 1..Len(sources) :
        sources[i].FallbackImageID # <<>> =>
            \E k \in 1..Len(fallbacks) : fallbacks[k].ID = sources[i].FallbackImageID[1]

=============================================================================
